---- MODULE Spec2Model ----
(***************************************************************************)
(* Tab Shepherd: the tab-routing decision engine of src/background.js.     *)
(*                                                                         *)
(* Texts (URLs, titles, patterns) are sequences of one-character strings.  *)
(* The binding table is a function from a set of window ids to group       *)
(* names; Object.entries of it enumerates integer keys in ascending order. *)
(* The browser is the one of the repository's own test harness             *)
(* (src/background.test.js): a set of live windows and a set of tabs, each *)
(* tab in one window; tabs.move re-homes a tab, windows.get throws for a   *)
(* window that is not live.                                                *)
(***************************************************************************)
EXTENDS Integers, Sequences, FiniteSets, TLC

\* ------------------------------------------------------------------ bounds
MaxTabs == 2
MaxCalls == 3

\* the window ids the browser hands out
WindowIds == {1, 2, 3}
TabIds == 1..MaxTabs

NoGroup == "<none>"
NoWindow == 0

\* ------------------------------------------------------------------ texts
Lower(c) ==
  CASE c = "X" -> "x"
    [] c = "Y" -> "y"
    [] c = "T" -> "t"
    [] OTHER -> c

toLowerCase(s) == [i \in 1..Len(s) |-> Lower(s[i])]

startsWith(s, p) == Len(s) >= Len(p) /\ SubSeq(s, 1, Len(p)) = p

includes(s, p) ==
  \E i \in 0..(Len(s) - Len(p)) : SubSeq(s, i + 1, i + Len(p)) = p

ChromeScheme == <<"c", "h", "r", "o", "m", "e", ":", "/", "/">>
ChromeExtensionScheme ==
  <<"c", "h", "r", "o", "m", "e", "-", "e", "x", "t", "e", "n", "s", "i", "o", "n", ":", "/", "/">>

\* The regular expressions modelled: literal characters, "." (any one
\* character) and "(" which, with no ")" in the alphabet, is an
\* unterminated group: new RegExp throws a SyntaxError.
RegExpCompiles(p) == \A i \in 1..Len(p) : p[i] # "("

RegExpMatchesAt(s, p, off) ==
  \A j \in 1..Len(p) : p[j] = "." \/ Lower(p[j]) = Lower(s[off + j])

\* new RegExp(pattern, 'i').test(text): an unanchored, case-insensitive search
RegExpTest(s, p) ==
  \E off \in 0..(Len(s) - Len(p)) : RegExpMatchesAt(s, p, off)

\* a matcher without the guard on its arguments
matchesPattern_unguarded(text, pattern, isSimpleMode) ==
  IF isSimpleMode THEN includes(toLowerCase(text), toLowerCase(pattern))
  ELSE IF ~RegExpCompiles(pattern) THEN FALSE
  ELSE RegExpTest(text, pattern)

\* matchesPattern(text, pattern, isSimpleMode): an empty text stands for an
\* empty or absent one; the SyntaxError of new RegExp is caught
matchesPattern(text, pattern, isSimpleMode) ==
  IF text = <<>> \/ pattern = <<>> THEN FALSE
  ELSE IF isSimpleMode THEN includes(toLowerCase(text), toLowerCase(pattern))
  ELSE IF ~RegExpCompiles(pattern) THEN FALSE
  ELSE RegExpTest(text, pattern)

SomePattern(group, text) ==
  \E i \in 1..Len(group.patterns) :
    matchesPattern(text, group.patterns[i], group.mode = "simple")

tabMatchesGroup(url, title, group) ==
  \E i \in 1..Len(group.patterns) :
    \/ matchesPattern(url, group.patterns[i], group.mode = "simple")
    \/ matchesPattern(title, group.patterns[i], group.mode = "simple")

\* "title", "url" or "none" (the code's null)
getMatchInfo(url, title, group) ==
  IF SomePattern(group, title) THEN "title"
  ELSE IF SomePattern(group, url) THEN "url"
  ELSE "none"

\* a guard that lets every URL through
IsInternalUrl_never(url) == FALSE

IsInternalUrl(url) ==
  url = <<>> \/ startsWith(url, ChromeScheme) \/ startsWith(url, ChromeExtensionScheme)

\* ------------------------------------------------------------------ binding table
\* Object.entries(bindings): integer-like keys enumerate in ascending order
RECURSIVE SortedIds(_)
SortedIds(S) ==
  IF S = {} THEN <<>>
  ELSE LET m == CHOOSE x \in S : \A y \in S : x <= y
       IN <<m>> \o SortedIds(S \ {m})

EmptyBindings == [w \in {} |-> NoGroup]

Delete(b, w) == [x \in (DOMAIN b) \ {w} |-> b[x]]

Put(b, w, g) == [x \in (DOMAIN b) \cup {w} |-> IF x = w THEN g ELSE b[x]]

\* bindings[w], with undefined read as NoGroup
Lookup(b, w) == IF w \in DOMAIN b THEN b[w] ELSE NoGroup

\* an eviction loop that deletes nothing
EvictOthers_none(b, entries, i, windowId, groupName) == b

\* the eviction loop of bindWindow (and of the 'bindWindowToGroup' message):
\* the entries were enumerated before the loop, deletions act on the object
RECURSIVE EvictOthers(_, _, _, _, _)
EvictOthers(b, entries, i, windowId, groupName) ==
  IF i > Len(entries) THEN b
  ELSE IF b[entries[i]] = groupName /\ entries[i] # windowId
       THEN EvictOthers(Delete(b, entries[i]), entries, i + 1, windowId, groupName)
       ELSE EvictOthers(b, entries, i + 1, windowId, groupName)

\* bindWindow without the eviction loop
bindWindow_noEvict(b, windowId, groupName) == Put(b, windowId, groupName)

bindWindow(b, windowId, groupName) ==
  Put(EvictOthers(b, SortedIds(DOMAIN b), 1, windowId, groupName), windowId, groupName)

\* an unbind that drops the whole table
unbindWindow_clear(b, windowId) == EmptyBindings

unbindWindow(b, windowId) == Delete(b, windowId)

\* 'bindWindowToGroup' without the eviction loop
bindWindowToGroup_noEvict(b, groupName, windowId) ==
  IF windowId # NoWindow THEN Put(b, windowId, groupName) ELSE b

\* a handler that does nothing when no window is given
bindWindowToGroup_skipNull(b, groupName, windowId) ==
  IF windowId # NoWindow
  THEN Put(EvictOthers(b, SortedIds(DOMAIN b), 1, windowId, groupName), windowId, groupName)
  ELSE b

bindWindowToGroup(b, groupName, windowId) ==
  LET evicted == EvictOthers(b, SortedIds(DOMAIN b), 1, windowId, groupName)
  IN IF windowId # NoWindow THEN Put(evicted, windowId, groupName) ELSE evicted

\* findWindowForGroup: the first entry for the group whose window is live;
\* every stale entry met before it is deleted and the table saved.
\* [window: the id or NoWindow, bindings: the table left in storage]
RECURSIVE FindWindowLoop(_, _, _, _, _)
FindWindowLoop(b, entries, i, live, groupName) ==
  IF i > Len(entries) THEN [window |-> NoWindow, bindings |-> b]
  ELSE IF b[entries[i]] = groupName
       THEN IF entries[i] \in live
            THEN [window |-> entries[i], bindings |-> b]
            ELSE FindWindowLoop(Delete(b, entries[i]), entries, i + 1, live, groupName)
       ELSE FindWindowLoop(b, entries, i + 1, live, groupName)

\* findWindowForGroup that reports a stale entry but never deletes it
findWindowForGroup_keepStale(b, live, groupName) ==
  [window |-> FindWindowLoop(b, SortedIds(DOMAIN b), 1, live, groupName).window,
   bindings |-> b]

\* findWindowForGroup whose existence check always throws (the key passed as a string)
findWindowForGroup_allStale(b, live, groupName) ==
  FindWindowLoop(b, SortedIds(DOMAIN b), 1, {}, groupName)

findWindowForGroup(b, live, groupName) ==
  FindWindowLoop(b, SortedIds(DOMAIN b), 1, live, groupName)

\* ------------------------------------------------------------------ group resolution
NullGroup == [name |-> NoGroup, patterns |-> <<>>, priority |-> 0, mode |-> "simple"]

\* String.prototype.localeCompare on the group names in use: their collation order
Collation == <<"a", "b", "c">>

Rank(name) == CHOOSE i \in 1..Len(Collation) : Collation[i] = name

localeCompare(x, y) ==
  IF Rank(x) < Rank(y) THEN -1 ELSE IF Rank(x) > Rank(y) THEN 1 ELSE 0

\* a comparator that forgets the match type
MatchOrder_nameOnly(x, y) == localeCompare(x.group.name, y.group.name)

\* the comparator of findMatchingGroup
MatchOrder(x, y) ==
  IF x.matchType = "title" /\ y.matchType = "url" THEN -1
  ELSE IF x.matchType = "url" /\ y.matchType = "title" THEN 1
  ELSE localeCompare(x.group.name, y.group.name)

\* a comparator that sorts the groups by descending priority number
PriorityOrder_descending(x, y) == y.priority - x.priority

\* the comparator of sortAllTabs
PriorityOrder(x, y) == x.priority - y.priority

\* Array.prototype.sort is stable: insertion after the last element not greater
RECURSIVE InsertMatch(_, _)
InsertMatch(sorted, x) ==
  IF sorted = <<>> THEN <<x>>
  ELSE IF MatchOrder(sorted[Len(sorted)], x) > 0
       THEN InsertMatch(SubSeq(sorted, 1, Len(sorted) - 1), x) \o <<sorted[Len(sorted)]>>
       ELSE sorted \o <<x>>

\* matches.sort(...) of findMatchingGroup
RECURSIVE SortMatches(_)
SortMatches(s) ==
  IF s = <<>> THEN <<>>
  ELSE InsertMatch(SortMatches(SubSeq(s, 1, Len(s) - 1)), s[Len(s)])

RECURSIVE InsertGroup(_, _)
InsertGroup(sorted, x) ==
  IF sorted = <<>> THEN <<x>>
  ELSE IF PriorityOrder(sorted[Len(sorted)], x) > 0
       THEN InsertGroup(SubSeq(sorted, 1, Len(sorted) - 1), x) \o <<sorted[Len(sorted)]>>
       ELSE sorted \o <<x>>

\* a pass that takes the groups as they are configured
SortGroups_asConfigured(s) == s

\* [...config.groups].sort(...) of sortAllTabs
RECURSIVE SortGroups(_)
SortGroups(s) ==
  IF s = <<>> THEN <<>>
  ELSE InsertGroup(SortGroups(SubSeq(s, 1, Len(s) - 1)), s[Len(s)])

\* the matches array of findMatchingGroup, in configured order
RECURSIVE CollectMatches(_, _, _, _)
CollectMatches(groups, i, url, title) ==
  IF i > Len(groups) THEN <<>>
  ELSE LET mt == getMatchInfo(url, title, groups[i])
       IN (IF mt = "none" THEN <<>> ELSE <<[group |-> groups[i], matchType |-> mt]>>)
          \o CollectMatches(groups, i + 1, url, title)

findMatchingGroup(cfg, url, title) ==
  IF ~cfg.enabled THEN NullGroup
  ELSE LET matches == CollectMatches(cfg.groups, 1, url, title)
       IN IF Len(matches) = 0 THEN NullGroup
          ELSE SortMatches(matches)[1].group

Range(f) == {f[x] : x \in DOMAIN f}

\* ------------------------------------------------------------------ startup rebinding
\* a test that does not ask for a non-empty tab.url
hasMatchingTab_anyUrl(tbs, w, group) ==
  \E t \in DOMAIN tbs :
    /\ tbs[t].windowId = w
    /\ tabMatchesGroup(tbs[t].url, tbs[t].title, group)

\* window.tabs?.some(tab => tab.url && tabMatchesGroup(tab.url, tab.title, group))
hasMatchingTab(tbs, w, group) ==
  \E t \in DOMAIN tbs :
    /\ tbs[t].windowId = w
    /\ tbs[t].url # <<>>
    /\ tabMatchesGroup(tbs[t].url, tbs[t].title, group)

\* the two nested loops of rebindWindowsOnStartup; wins is windows.getAll()
RECURSIVE RebindLoop(_, _, _, _, _, _)
RebindLoop(groups, i, wins, j, tbs, newBindings) ==
  IF i > Len(groups) THEN newBindings
  ELSE IF j > Len(wins) THEN RebindLoop(groups, i + 1, wins, 1, tbs, newBindings)
  ELSE IF groups[i].name \in Range(newBindings)
       THEN RebindLoop(groups, i, wins, j + 1, tbs, newBindings)
  ELSE IF wins[j] \in DOMAIN newBindings
       THEN RebindLoop(groups, i, wins, j + 1, tbs, newBindings)
  ELSE IF hasMatchingTab(tbs, wins[j], groups[i])
       THEN RebindLoop(groups, i + 1, wins, 1, tbs, Put(newBindings, wins[j], groups[i].name))
  ELSE RebindLoop(groups, i, wins, j + 1, tbs, newBindings)

\* ------------------------------------------------------------------ batch sort helpers
\* the ownership check left out
OwnedByHigherPriority_never(cfg, currentWindowGroup, group) == FALSE

\* the ownership check with the comparison turned round
OwnedByHigherPriority_inverted(cfg, currentWindowGroup, group) ==
  /\ currentWindowGroup # NoGroup
  /\ \E i \in 1..Len(cfg.groups) :
       /\ cfg.groups[i].name = currentWindowGroup
       /\ cfg.groups[i].priority > group.priority

\* an ownership check without the test that the owning group was found: a
\* window bound to a name that is no group counts as owned
OwnedByHigherPriority_unknownOwns(cfg, currentWindowGroup, group) ==
  /\ currentWindowGroup # NoGroup
  /\ \A i \in 1..Len(cfg.groups) :
       cfg.groups[i].name = currentWindowGroup => cfg.groups[i].priority < group.priority

\* config.groups.find(g => g.name === currentWindowGroup), then the priority test
OwnedByHigherPriority(cfg, currentWindowGroup, group) ==
  /\ currentWindowGroup # NoGroup
  /\ \E i \in 1..Len(cfg.groups) :
       /\ cfg.groups[i].name = currentWindowGroup
       /\ \A j \in 1..(i - 1) : cfg.groups[j].name # currentWindowGroup
       /\ cfg.groups[i].priority < group.priority

\* whether the collection loop of sortAllTabs pushes tab t onto tabsToMove
IsCandidate(cfg, group, b, wins, tbs, t) ==
  /\ wins[tbs[t].windowId] = "normal"
  /\ ~IsInternalUrl(tbs[t].url)
  /\ tabMatchesGroup(tbs[t].url, tbs[t].title, group)
  /\ Lookup(b, tbs[t].windowId) # group.name
  /\ ~OwnedByHigherPriority(cfg, Lookup(b, tbs[t].windowId), group)

\* tabsToMove: windows in enumeration order, each window's tabs in order
RECURSIVE CollectTabsToMove(_, _, _, _, _, _, _)
CollectTabsToMove(cfg, group, b, wins, order, j, tbs) ==
  IF j > Len(order) THEN <<>>
  ELSE LET inWindow == SortedIds({t \in DOMAIN tbs : tbs[t].windowId = order[j]})
           Test(t) == IsCandidate(cfg, group, b, wins, tbs, t)
       IN SelectSeq(inWindow, Test)
          \o CollectTabsToMove(cfg, group, b, wins, order, j + 1, tbs)

\* ------------------------------------------------------------------ configurations and pages
PageXY == [url |-> <<"x", "y">>, title |-> <<"T">>]
PageXtY == [url |-> <<"x">>, title |-> <<"Y">>]
PageInternal == [url |-> ChromeScheme \o <<"x">>, title |-> <<"x">>]
PageExtension == [url |-> ChromeExtensionScheme \o <<"x">>, title |-> <<"T">>]
PageXT == [url |-> <<"x">>, title |-> <<"T">>]
PageEmptyY == [url |-> <<>>, title |-> <<"Y">>]

GroupA(p) == [name |-> "a", patterns |-> << <<"x">> >>, priority |-> p, mode |-> "simple"]
GroupB(p) == [name |-> "b", patterns |-> << <<"y">> >>, priority |-> p, mode |-> "simple"]
GroupC(p) == [name |-> "c", patterns |-> << <<"(">>, <<"x", ".">> >>, priority |-> p, mode |-> "regex"]

Cfg(en, gs) == [enabled |-> en, groups |-> gs, catchAllWindowId |-> NoWindow]

\* the configurations and open pages the behaviours start from
Scenarios == <<
  [config |-> Cfg(TRUE, <<GroupA(1), GroupB(2), GroupC(0)>>),
   pages |-> <<PageXY, PageXtY, PageInternal>>, popups |-> {}],
  [config |-> Cfg(TRUE, <<GroupB(0), GroupC(0), GroupA(1)>>),
   pages |-> <<PageXY, PageInternal>>, popups |-> {1}],
  [config |-> Cfg(FALSE, <<GroupA(0), GroupB(1)>>),
   pages |-> <<PageXY, PageXtY>>, popups |-> {}],
  [config |-> [Cfg(TRUE, <<GroupB(0)>>) EXCEPT !.catchAllWindowId = 2],
   pages |-> <<PageXT, PageEmptyY>>, popups |-> {}],
  [config |-> [Cfg(TRUE, <<>>) EXCEPT !.catchAllWindowId = 1],
   pages |-> <<PageExtension, PageXY>>, popups |-> {}] >>

GroupNames(cfg) == {cfg.groups[i].name : i \in 1..Len(cfg.groups)}

\* ------------------------------------------------------------------ options page: values
\* the most groups a configuration is grown to
MaxGroups == 2

\* the number a JSON number literal beyond the double range parses to
Infinity == 1000

\* a priority that is null or absent in a file
NoPriority == -1

\* String.prototype.toLowerCase on a group name
NameLower(n) == IF n = "A" THEN "a" ELSE n

DEFAULT_CONFIG == Cfg(TRUE, <<>>)

TEMPLATES ==
  [development |-> [name |-> "A", patterns |-> << <<"x">> >>, mode |-> "simple"],
   github      |-> [name |-> "b", patterns |-> << <<"x">> >>, mode |-> "simple"]]

\* the template selections of the quick-start dialog, in the order they are passed
TemplateSelections == {<<>>, <<"development">>, <<"github">>, <<"github", "development">>}

\* n + 1 on a number that may be Infinity
PlusOne(n) == IF n = Infinity THEN Infinity ELSE n + 1

\* Math.max(-1, ...groups.map(g => g.priority))
MaxPriority(gs) ==
  IF Len(gs) = 0 THEN -1
  ELSE CHOOSE m \in {gs[i].priority : i \in 1..Len(gs)} \cup {-1} :
         \A i \in 1..Len(gs) : gs[i].priority <= m /\ m >= -1

\* Array.prototype.sort((a, b) => a.priority - b.priority) on the positions
\* of the groups: a stable insertion (Infinity - Infinity is NaN, which the
\* sort reads as "equal")
RECURSIVE InsertPosition(_, _, _)
InsertPosition(gs, sorted, i) ==
  IF sorted = <<>> THEN <<i>>
  ELSE IF gs[i].priority < gs[Head(sorted)].priority THEN <<i>> \o sorted
  ELSE <<Head(sorted)>> \o InsertPosition(gs, Tail(sorted), i)

RECURSIVE SortPositions(_, _)
SortPositions(gs, n) ==
  IF n = 0 THEN <<>> ELSE InsertPosition(gs, SortPositions(gs, n - 1), n)

\* sorted.forEach((g, i) => g.priority = i): the groups keep their place in
\* the list and take the index of their place in the sorted copy
Renumber(gs) ==
  LET sorted == SortPositions(gs, Len(gs))
  IN [i \in 1..Len(gs) |->
        [gs[i] EXCEPT !.priority = (CHOOSE k \in 1..Len(sorted) : sorted[k] = i) - 1]]

\* Array.prototype.find(g => g.name === name): the first position, 0 if none
FindByName(gs, name) ==
  IF \E i \in 1..Len(gs) : gs[i].name = name
  THEN CHOOSE i \in 1..Len(gs) : gs[i].name = name /\ \A j \in 1..(i - 1) : gs[j].name # name
  ELSE 0

\* groups.filter(g => g.name !== groupName)
RECURSIVE FilterOut(_, _)
FilterOut(gs, name) ==
  IF gs = <<>> THEN <<>>
  ELSE IF Head(gs).name = name THEN FilterOut(Tail(gs), name)
  ELSE <<Head(gs)>> \o FilterOut(Tail(gs), name)

\* ------------------------------------------------------------------ options page: operations
\* saveModal: editingGroupIndex is 0 when a group is added; the form fields
\* arrive trimmed (an empty name is "", no pattern line is <<>>)
saveModal(cur, editingGroupIndex, name, patterns, mode) ==
  IF name = "" THEN [config |-> cur, saved |-> FALSE]
  ELSE IF Len(patterns) = 0 THEN [config |-> cur, saved |-> FALSE]
  ELSE IF mode = "regex" /\ \E i \in 1..Len(patterns) : ~RegExpCompiles(patterns[i])
    THEN [config |-> cur, saved |-> FALSE]
  ELSE IF editingGroupIndex # 0
    THEN [config |-> [cur EXCEPT !.groups[editingGroupIndex].name = name,
                                 !.groups[editingGroupIndex].patterns = patterns,
                                 !.groups[editingGroupIndex].mode = mode],
          saved |-> TRUE]
  ELSE IF \E i \in 1..Len(cur.groups) : cur.groups[i].name = name
    THEN [config |-> cur, saved |-> FALSE]
  ELSE [config |-> [cur EXCEPT !.groups =
                      Append(cur.groups, [name |-> name, patterns |-> patterns, mode |-> mode,
                                          priority |-> PlusOne(MaxPriority(cur.groups))])],
        saved |-> TRUE]

\* deleteGroup after the confirm dialog was accepted
deleteGroup(cur, groupName) ==
  [cur EXCEPT !.groups = Renumber(FilterOut(cur.groups, groupName))]

\* handleDrop: the priorities of the dragged and the target group swapped,
\* before the renumbering
SwapPriorities(gs, draggedName, targetName) ==
  LET d == FindByName(gs, draggedName)
      t == FindByName(gs, targetName)
  IN [i \in 1..Len(gs) |->
        IF i = d THEN [gs[i] EXCEPT !.priority = gs[t].priority]
        ELSE IF i = t THEN [gs[i] EXCEPT !.priority = gs[d].priority]
        ELSE gs[i]]

handleDrop(cur, draggedName, targetName) ==
  [cur EXCEPT !.groups = Renumber(SwapPriorities(cur.groups, draggedName, targetName))]

\* addTemplates: the loop over templateIds
RECURSIVE addTemplates(_, _)
addTemplates(cur, templateIds) ==
  IF templateIds = <<>> THEN cur
  ELSE
    LET template == TEMPLATES[Head(templateIds)]
    IN IF \E i \in 1..Len(cur.groups) :
            NameLower(cur.groups[i].name) = NameLower(template.name)
       THEN addTemplates(cur, Tail(templateIds))
       ELSE addTemplates(
              [cur EXCEPT !.groups =
                 Append(cur.groups,
                        [name |-> template.name, patterns |-> template.patterns,
                         mode |-> IF template.mode = "" THEN "simple" ELSE template.mode,
                         priority |-> PlusOne(MaxPriority(cur.groups))])],
              Tail(templateIds))

\* a file: what JSON.parse returns for its text. groupsKind is "missing",
\* "notList" or "list"; a group's name is "" when it is absent or empty, its
\* mode is "" when absent, its priority NoPriority when null or absent
FileGroup(name, patternsIsArray, patterns, mode, priority) ==
  [name |-> name, patternsIsArray |-> patternsIsArray, patterns |-> patterns,
   mode |-> mode, priority |-> priority]

File(groupsKind, groups) ==
  [groupsKind |-> groupsKind, groups |-> groups, enabled |-> TRUE, catchAllWindowId |-> NoWindow]

NoFile == File("missing", <<>>)

\* a writer that leaves every number out
StringifyNumber_null(n) == NoPriority

\* JSON.stringify of a number: a number that is not finite is written as null
StringifyNumber(n) == IF n = Infinity THEN NoPriority ELSE n

\* exportConfig: JSON.stringify(currentConfig), as the file an import reads back
exportConfig(cur) ==
  [groupsKind |-> "list",
   groups |-> [i \in 1..Len(cur.groups) |->
                 FileGroup(cur.groups[i].name, TRUE, cur.groups[i].patterns,
                           cur.groups[i].mode, StringifyNumber(cur.groups[i].priority))],
   enabled |-> cur.enabled,
   catchAllWindowId |-> cur.catchAllWindowId]

\* an import that checks the groups field and not the groups in it
ImportAccepts_groupsOnly(imported) == imported.groupsKind = "list"

\* the two checks of importConfig that throw
ImportAccepts(imported) ==
  /\ imported.groupsKind = "list"
  /\ \A i \in 1..Len(imported.groups) :
       imported.groups[i].name # "" /\ imported.groups[i].patternsIsArray

\* importConfig: the config built from an accepted file, the current one
\* when the file is rejected
importConfig(cur, imported) ==
  IF ~ImportAccepts(imported) THEN [config |-> cur, saved |-> FALSE]
  ELSE [config |->
          [enabled |-> imported.enabled,
           groups |-> [i \in 1..Len(imported.groups) |->
                         [name |-> imported.groups[i].name,
                          patterns |-> imported.groups[i].patterns,
                          priority |-> IF imported.groups[i].priority = NoPriority
                                       THEN i - 1 ELSE imported.groups[i].priority,
                          mode |-> IF imported.groups[i].mode = ""
                                   THEN "simple" ELSE imported.groups[i].mode]],
           catchAllWindowId |-> imported.catchAllWindowId],
        saved |-> TRUE]

\* the files offered to the import
ImportFiles ==
  { File("missing", <<>>),
    File("notList", <<>>),
    File("list", <<>>),
    File("list", << FileGroup("", TRUE, << <<"x">> >>, "simple", 0) >>),
    File("list", << FileGroup("a", TRUE, << <<"x">> >>, "", NoPriority),
                    FileGroup("b", FALSE, <<>>, "simple", 1) >>),
    File("list", << FileGroup("a", TRUE, << <<"x">> >>, "simple", 0),
                    FileGroup("a", TRUE, << <<"x">> >>, "regex", 0) >>),
    File("list", << FileGroup("b", TRUE, << <<"(">> >>, "regex", 1),
                    FileGroup("a", TRUE, << <<"x">> >>, "", NoPriority) >>),
    File("list", << FileGroup("b", TRUE, << <<"x">> >>, "", Infinity) >>) }

\* no operation of the options page yet
PageNone ==
  [op |-> "none", file |-> NoFile, preCurrent |-> DEFAULT_CONFIG, preStored |-> DEFAULT_CONFIG,
   beforeRenumber |-> <<>>]

\* no call of the matcher yet
ProbeNone ==
  [applied |-> FALSE, url |-> <<>>, title |-> <<>>, patterns |-> <<>>, mode |-> "simple",
   urlMatches |-> <<>>, titleMatches |-> <<>>, tabMatches |-> FALSE, matchType |-> "none",
   matchingGroup |-> NoGroup]

\* ------------------------------------------------------------------ state
VARIABLES
  config,          \* chrome.storage.sync 'config'
  storedBindings,  \* chrome.storage.local 'windowBindings'
  windowBindings,  \* the in-memory mirror (let windowBindings)
  windows,         \* the live windows: id -> type ('normal' or not)
  tabs,            \* the open tabs: id -> [windowId, url, title]
  sort,            \* the local variables of a running sortAllTabs
  last,            \* the operation awaiting its response, with the state it started from
  calls,           \* the bindWindow calls running concurrently, by order of their read
  currentConfig,   \* the options page's copy of the config (let currentConfig)
  page,            \* the options page's last operation, with the state it started from
  probe            \* a call of the pattern matcher: its arguments and what it returned

pageVars == <<currentConfig, page, probe>>

vars == <<config, storedBindings, windowBindings, windows, tabs, sort, last, calls,
          currentConfig, page, probe>>

\* an operation of the options page starts
PageOp(op, file, beforeRenumber) ==
  [op |-> op, file |-> file, preCurrent |-> currentConfig, preStored |-> config,
   beforeRenumber |-> beforeRenumber]

\* a bindWindow call that has not been made
CallIdle == [pc |-> "idle", windowId |-> NoWindow, groupName |-> NoGroup,
             bindings |-> EmptyBindings]

SortIdle ==
  [pc |-> "idle", config |-> Cfg(FALSE, <<>>), groups |-> <<>>, idx |-> 0,
   targetWindowId |-> NoWindow, tabsToMove |-> <<>>, k |-> 0,
   movedCount |-> 0, errors |-> <<>>, moves |-> <<>>, noTarget |-> {}, focused |-> {},
   skipped |-> {}]

LastNone ==
  [op |-> "none", windowId |-> NoWindow, groupName |-> NoGroup, tabId |-> 0,
   ret |-> NoWindow, matchingGroup |-> NullGroup, move |-> "none",
   focused |-> NoWindow, fault |-> "ok",
   preBindings |-> EmptyBindings, preWindows |-> {}, preTabs |-> <<>>,
   preConfig |-> Cfg(FALSE, <<>>)]

Started(op, w, g, t) ==
  [LastNone EXCEPT !.op = op, !.windowId = w, !.groupName = g, !.tabId = t,
                   !.preBindings = storedBindings, !.preWindows = DOMAIN windows, !.preTabs = tabs,
                   !.preConfig = config]

Idle == sort.pc = "idle" /\ last.op = "none"

Init ==
  /\ \E sc \in 1..Len(Scenarios) :
       /\ config = Scenarios[sc].config
       /\ \E place \in [TabIds -> WindowIds] :
            tabs = [t \in TabIds |->
                      LET pg == Scenarios[sc].pages[((t - 1) % Len(Scenarios[sc].pages)) + 1]
                      IN [windowId |-> place[t], url |-> pg.url, title |-> pg.title]]
       /\ windows = [w \in WindowIds |->
                       IF w \in Scenarios[sc].popups THEN "popup" ELSE "normal"]
  /\ storedBindings = EmptyBindings
  /\ windowBindings = EmptyBindings
  /\ sort = SortIdle
  /\ last = LastNone
  /\ calls = [c \in 1..MaxCalls |-> CallIdle]
  /\ currentConfig = config
  /\ page = PageNone
  /\ probe = ProbeNone

\* saveWindowBindings
Save(b) == storedBindings' = b /\ windowBindings' = b

\* ------------------------------------------------------------------ messages
BindWindow(w, g) ==
  /\ Idle
  /\ Save(bindWindow(storedBindings, w, g))
  /\ last' = Started("bindWindow", w, g, 0)
  /\ UNCHANGED <<pageVars, calls, config, windows, tabs, sort>>

UnbindWindow(w) ==
  /\ Idle
  /\ Save(unbindWindow(storedBindings, w))
  /\ last' = Started("unbindWindow", w, NoGroup, 0)
  /\ UNCHANGED <<pageVars, calls, config, windows, tabs, sort>>

BindWindowToGroup(g, w) ==
  /\ Idle
  /\ Save(bindWindowToGroup(storedBindings, g, w))
  /\ last' = Started("bindWindowToGroup", w, g, 0)
  /\ UNCHANGED <<pageVars, calls, config, windows, tabs, sort>>

\* rebindWindowsOnStartup (the 'rebindWindows' message, runtime.onStartup)
RebindWindows ==
  /\ Idle
  /\ IF ~config.enabled \/ Len(config.groups) = 0
     THEN UNCHANGED <<storedBindings, windowBindings>>
     ELSE Save(RebindLoop(config.groups, 1, SortedIds(DOMAIN windows), 1, tabs, EmptyBindings))
  /\ last' = Started("rebindWindows", NoWindow, NoGroup, 0)
  /\ UNCHANGED <<pageVars, calls, config, windows, tabs, sort>>

\* a call of findWindowForGroup on its own
FindWindowForGroup(g) ==
  /\ Idle
  /\ LET r == findWindowForGroup(storedBindings, DOMAIN windows, g)
     IN /\ IF r.bindings # storedBindings THEN Save(r.bindings)
           ELSE UNCHANGED <<storedBindings, windowBindings>>
        /\ last' = [Started("findWindowForGroup", NoWindow, g, 0) EXCEPT !.ret = r.window]
  /\ UNCHANGED <<pageVars, calls, config, windows, tabs, sort>>

\* windows.onRemoved: the window and its tabs are gone, the handler unbinds it
WindowRemoved(w) ==
  /\ Idle
  /\ w \in DOMAIN windows
  /\ windows' = [x \in (DOMAIN windows) \ {w} |-> windows[x]]
  /\ tabs' = [t \in {x \in DOMAIN tabs : tabs[x].windowId # w} |-> tabs[t]]
  /\ Save(unbindWindow(storedBindings, w))
  /\ last' = Started("windowRemoved", w, NoGroup, 0)
  /\ UNCHANGED <<pageVars, calls, config, sort>>

\* sendResponse: the operation is over
Respond ==
  /\ \/ sort.pc = "done"
     \/ (sort.pc = "idle" /\ last.op # "none")
  /\ sort' = SortIdle
  /\ last' = LastNone
  /\ UNCHANGED <<pageVars, calls, config, storedBindings, windowBindings, windows, tabs>>

\* ------------------------------------------------------------------ tab events
\* chrome.tabs.move(tabId, {windowId, index: -1}) when it succeeds
MoveTab(tbs, t, w) == [tbs EXCEPT ![t].windowId = w]

\* a moveTabToWindow that reports success without moving the tab
moveTabToWindow_stay(tbs, t, w, outcome) == tbs

\* a moveTabToWindow whose move cannot fail
moveTabToWindow_always(tbs, t, w, outcome) == MoveTab(tbs, t, w)

\* what the two browser calls of moveTabToWindow can do: both succeed,
\* chrome.tabs.move throws, or chrome.windows.update throws after the move
MoveOutcomes == {"ok", "moveFails", "focusFails"}

\* moveTabToWindow, the tabs it leaves: the move, then the focus; a failure
\* of either is caught
moveTabToWindow(tbs, t, w, outcome) ==
  IF outcome = "moveFails" THEN tbs ELSE MoveTab(tbs, t, w)

\* a moveTabToWindow that returns true whatever happened
MoveResult_alwaysTrue(outcome) == "moved"

\* what moveTabToWindow returned: true ("moved") or false ("failed")
MoveResult(outcome) == IF outcome = "ok" THEN "moved" ELSE "failed"

\* the window chrome.windows.update(windowId, { focused: true }) gave the
\* focus to, NoWindow when the call was not reached or threw
FocusResult(outcome, w) == IF outcome = "ok" THEN w ELSE NoWindow

\* a check of the catch-all window that never throws
CatchAllExists_always(cfg, live) == TRUE

\* chrome.windows.get(config.catchAllWindowId) does not throw
CatchAllExists(cfg, live) == cfg.catchAllWindowId \in live

\* handleTabNavigation(tabId, url, title, currentWindowId):
\* [tabs, bindings: what it leaves, matchingGroup: what the resolver returned,
\*  move: "none" when moveTabToWindow was not called, else what it returned,
\*  focused: the window that was given the focus, fault: what went wrong in
\*  moveTabToWindow]
handleTabNavigation(cfg, b, live, tbs, t, outcome) ==
  LET url == tbs[t].url
      title == tbs[t].title
      currentWindowId == tbs[t].windowId
      matchingGroup == findMatchingGroup(cfg, url, title)
      currentWindowGroup == Lookup(b, currentWindowId)
      found == findWindowForGroup(b, live, matchingGroup.name)
      same == [tabs |-> tbs, bindings |-> b, matchingGroup |-> matchingGroup,
               move |-> "none", focused |-> NoWindow, fault |-> "ok"]
  IN IF ~cfg.enabled THEN [same EXCEPT !.matchingGroup = NullGroup]
     ELSE IF IsInternalUrl(url) THEN [same EXCEPT !.matchingGroup = NullGroup]
     ELSE IF matchingGroup # NullGroup
          THEN IF currentWindowGroup = matchingGroup.name THEN same
               ELSE IF found.window # NoWindow /\ found.window # currentWindowId
                    THEN [same EXCEPT !.tabs = moveTabToWindow(tbs, t, found.window, outcome),
                                      !.bindings = found.bindings,
                                      !.move = MoveResult(outcome),
                                      !.focused = FocusResult(outcome, found.window),
                                      !.fault = outcome]
                    ELSE [same EXCEPT !.bindings = found.bindings]
     ELSE IF cfg.catchAllWindowId # NoWindow
          THEN IF currentWindowId = cfg.catchAllWindowId THEN same
               ELSE IF CatchAllExists(cfg, live)
                    THEN [same EXCEPT !.tabs = moveTabToWindow(tbs, t, cfg.catchAllWindowId, outcome),
                                      !.move = MoveResult(outcome),
                                      !.focused = FocusResult(outcome, cfg.catchAllWindowId),
                                      !.fault = outcome]
                    ELSE same
     ELSE same

\* tabs.onUpdated with a changed url or title (tabs.onCreated with a pendingUrl)
TabUpdated(t, outcome) ==
  /\ Idle
  /\ t \in DOMAIN tabs
  /\ LET r == handleTabNavigation(config, storedBindings, DOMAIN windows, tabs, t, outcome)
     IN /\ tabs' = r.tabs
        /\ IF r.bindings # storedBindings THEN Save(r.bindings)
           ELSE UNCHANGED <<storedBindings, windowBindings>>
        /\ last' = [Started("handleTabNavigation", NoWindow, NoGroup, t)
                      EXCEPT !.matchingGroup = r.matchingGroup, !.move = r.move,
                             !.focused = r.focused, !.fault = r.fault]
  /\ UNCHANGED <<pageVars, calls, config, windows, sort>>

\* ------------------------------------------------------------------ sortAllTabs
\* an entry that does not look at config.enabled
SortStart_ignoreEnabled ==
  /\ Idle
  /\ last' = Started("sortAllTabs", NoWindow, NoGroup, 0)
  /\ IF Len(config.groups) = 0
     THEN sort' = [SortIdle EXCEPT !.pc = "done", !.config = config]
     ELSE sort' = [SortIdle EXCEPT !.pc = "collect", !.config = config,
                                   !.groups = SortGroups(config.groups),
                                   !.idx = 1]
  /\ UNCHANGED <<pageVars, calls, config, storedBindings, windowBindings, windows, tabs>>

\* entry: read the config, return at once when disabled or without groups
SortStart ==
  /\ Idle
  /\ last' = Started("sortAllTabs", NoWindow, NoGroup, 0)
  /\ IF ~config.enabled \/ Len(config.groups) = 0
     THEN sort' = [SortIdle EXCEPT !.pc = "done", !.config = config]
     ELSE sort' = [SortIdle EXCEPT !.pc = "collect", !.config = config,
                                   !.groups = SortGroups(config.groups),
                                   !.idx = 1]
  /\ UNCHANGED <<pageVars, calls, config, storedBindings, windowBindings, windows, tabs>>

\* the loop header after group idx is finished
NextGroup(srt) ==
  IF srt.idx + 1 > Len(srt.groups)
  THEN [srt EXCEPT !.pc = "done", !.idx = srt.idx + 1, !.tabsToMove = <<>>, !.k = 0]
  ELSE [srt EXCEPT !.pc = "collect", !.idx = srt.idx + 1, !.tabsToMove = <<>>, !.k = 0]

\* one iteration of the group loop up to the move loop: fresh windows and
\* bindings, the target window, the candidates
SortCollect ==
  /\ sort.pc = "collect"
  /\ LET group == sort.groups[sort.idx]
         found == findWindowForGroup(storedBindings, DOMAIN windows, group.name)
         tabsToMove == CollectTabsToMove(sort.config, group, storedBindings, windows,
                                         SortedIds(DOMAIN windows), 1, tabs)
         collected == [sort EXCEPT !.targetWindowId = found.window,
                                   !.tabsToMove = tabsToMove, !.k = 1]
     IN /\ IF found.bindings # storedBindings THEN Save(found.bindings)
           ELSE UNCHANGED <<storedBindings, windowBindings>>
        /\ sort' = IF tabsToMove = <<>> THEN NextGroup(collected)
                   ELSE [collected EXCEPT !.pc = "move"]
  /\ UNCHANGED <<pageVars, calls, config, windows, tabs, last>>

\* a catch block that gives up the rest of the group's candidates
RecordFailure_abort(srt, t) ==
  [srt EXCEPT !.errors = Append(srt.errors, t),
              !.tabsToMove = SubSeq(srt.tabsToMove, 1, srt.k)]

\* the catch block of the move loop: errors.push(message naming the tab)
RecordFailure(srt, t) == [srt EXCEPT !.errors = Append(srt.errors, t)]

\* a move loop without the inner try: the failed chrome.tabs.get lands in
\* the outer catch block
SkipClosed_recorded(srt, t, name) == RecordFailure(srt, t)

\* the inner catch block of the move loop: chrome.tabs.get threw, continue
SkipClosed(srt, t, name) == [srt EXCEPT !.skipped = srt.skipped \cup {<<t, name>>}]

\* one iteration of the move loop; ok: whether chrome.tabs.move succeeds
SortMove(ok) ==
  /\ sort.pc = "move"
  /\ LET group == sort.groups[sort.idx]
         t == sort.tabsToMove[sort.k]
         found == findWindowForGroup(storedBindings, DOMAIN windows, group.name)
         targeted == [sort EXCEPT !.targetWindowId = found.window]
         step(srt) == IF srt.k + 1 > Len(srt.tabsToMove) THEN NextGroup(srt)
                      ELSE [srt EXCEPT !.k = srt.k + 1]
     IN /\ IF found.bindings # storedBindings THEN Save(found.bindings)
           ELSE UNCHANGED <<storedBindings, windowBindings>>
        /\ IF t \notin DOMAIN tabs
           THEN /\ sort' = step(SkipClosed(targeted, t, group.name))
                /\ UNCHANGED tabs
           ELSE IF found.window # NoWindow /\ found.window # tabs[t].windowId
           THEN IF ok
                THEN /\ tabs' = MoveTab(tabs, t, found.window)
                     /\ sort' = step([targeted EXCEPT
                          !.movedCount = sort.movedCount + 1,
                          !.moves = Append(sort.moves,
                                      [tab |-> t, from |-> tabs[t].windowId,
                                       to |-> found.window, group |-> group.name])])
                ELSE /\ sort' = step(RecordFailure(targeted, t))
                     /\ UNCHANGED tabs
           ELSE /\ sort' = step([targeted EXCEPT
                       !.noTarget = IF found.window = NoWindow
                                    THEN sort.noTarget \cup {<<t, group.name>>}
                                    ELSE sort.noTarget])
                /\ UNCHANGED tabs
  /\ UNCHANGED <<pageVars, calls, config, windows, last>>

\* ------------------------------------------------------------------ specification
Next ==
  \/ \E w \in WindowIds, g \in GroupNames(config) : BindWindow(w, g)
  \/ \E w \in WindowIds : UnbindWindow(w)
  \/ \E w \in WindowIds \cup {NoWindow}, g \in GroupNames(config) : BindWindowToGroup(g, w)
  \/ RebindWindows
  \/ \E g \in GroupNames(config) : FindWindowForGroup(g)
  \/ \E w \in WindowIds : WindowRemoved(w)
  \/ \E t \in TabIds, outcome \in MoveOutcomes : TabUpdated(t, outcome)
  \/ SortStart
  \/ SortCollect
  \/ \E ok \in BOOLEAN : SortMove(ok)
  \/ Respond

Spec == Init /\ [][Next]_vars

\* ------------------------------------------------------------------ concurrent bindWindow calls
\* bindWindow up to its second await: getWindowBindings resolves with the
\* table in storage, the eviction loop and the assignment run on that copy,
\* saveWindowBindings sets the in-memory mirror and issues the write
BindRead(c, w, g) ==
  /\ calls[c].pc = "idle"
  /\ \A d \in 1..(c - 1) : calls[d].pc # "idle"
  /\ LET bindings == bindWindow(storedBindings, w, g)
     IN /\ calls' = [calls EXCEPT ![c] = [pc |-> "write", windowId |-> w,
                                          groupName |-> g, bindings |-> bindings]]
        /\ windowBindings' = bindings
  /\ UNCHANGED <<pageVars, config, storedBindings, windows, tabs, sort, last>>

\* a write that stores the call's entries key by key, next to the entries
\* that are in storage
BindWrite_merge(c) ==
  /\ calls[c].pc = "write"
  /\ storedBindings' = [w \in DOMAIN storedBindings \cup DOMAIN calls[c].bindings |->
                          IF w \in DOMAIN calls[c].bindings THEN calls[c].bindings[w]
                          ELSE storedBindings[w]]
  /\ calls' = [calls EXCEPT ![c].pc = "done"]
  /\ UNCHANGED <<pageVars, config, windowBindings, windows, tabs, sort, last>>

\* chrome.storage.local.set({ windowBindings: bindings }) lands and the call returns
BindWrite(c) ==
  /\ calls[c].pc = "write"
  /\ storedBindings' = calls[c].bindings
  /\ calls' = [calls EXCEPT ![c].pc = "done"]
  /\ UNCHANGED <<pageVars, config, windowBindings, windows, tabs, sort, last>>

\* the calls start from the empty table; where the tabs sit plays no part
\* in them: they all sit in the first window
ConcurrentInit ==
  /\ Init
  /\ \A t \in TabIds : tabs[t].windowId = 1

ConcurrentNext ==
  \/ \E c \in 1..MaxCalls, w \in WindowIds, g \in GroupNames(config) : BindRead(c, w, g)
  \/ \E c \in 1..MaxCalls : BindWrite(c)

ConcurrentSpec == ConcurrentInit /\ [][ConcurrentNext]_vars

\* ------------------------------------------------------------------ concurrent bindWindow and unbindWindow calls
\* unbindWindow up to its second await: getWindowBindings resolves with the
\* table in storage, the entry is deleted from that copy, saveWindowBindings
\* sets the in-memory mirror and issues the write
UnbindRead(c, w) ==
  /\ calls[c].pc = "idle"
  /\ \A d \in 1..(c - 1) : calls[d].pc # "idle"
  /\ LET bindings == unbindWindow(storedBindings, w)
     IN /\ calls' = [calls EXCEPT ![c] = [pc |-> "write", windowId |-> w,
                                          groupName |-> NoGroup, bindings |-> bindings]]
        /\ windowBindings' = bindings
  /\ UNCHANGED <<pageVars, config, storedBindings, windows, tabs, sort, last>>

\* the calls start from the empty table, with two groups configured
StorageRaceInit ==
  /\ ConcurrentInit
  /\ Len(config.groups) = 2

StorageRaceNext ==
  \/ \E c \in 1..MaxCalls, w \in WindowIds, g \in GroupNames(config) : BindRead(c, w, g)
  \/ \E c \in 1..MaxCalls, w \in WindowIds : UnbindRead(c, w)
  \/ \E c \in 1..MaxCalls : BindWrite(c)

StorageRaceSpec == StorageRaceInit /\ [][StorageRaceNext]_vars

\* ------------------------------------------------------------------ options page: actions
\* the form values of the add / edit dialog: the name typed, the pattern
\* lines and the mode chosen
FormNames == {"a", "b", ""}

Forms ==
  { [patterns |-> <<>>, mode |-> "simple"],
    [patterns |-> << <<"x">> >>, mode |-> "simple"],
    [patterns |-> << <<"x">> >>, mode |-> "regex"],
    [patterns |-> << <<"(">> >>, mode |-> "regex"] }

\* saveConfig: the message handler stores the page's config as it is
SaveModal(editingGroupIndex, name, patterns, mode) ==
  LET r == saveModal(currentConfig, editingGroupIndex, name, patterns, mode)
  IN /\ editingGroupIndex = 0 => Len(currentConfig.groups) < MaxGroups
     /\ currentConfig' = r.config
     /\ config' = IF r.saved THEN r.config ELSE config
     /\ page' = PageOp(IF editingGroupIndex = 0 THEN "addGroup" ELSE "editGroup", NoFile, <<>>)
     /\ UNCHANGED <<storedBindings, windowBindings, windows, tabs, sort, last, calls, probe>>

DeleteGroup(i) ==
  LET r == deleteGroup(currentConfig, currentConfig.groups[i].name)
  IN /\ currentConfig' = r
     /\ config' = r
     /\ page' = PageOp("deleteGroup", NoFile,
                       FilterOut(currentConfig.groups, currentConfig.groups[i].name))
     /\ UNCHANGED <<storedBindings, windowBindings, windows, tabs, sort, last, calls, probe>>

\* the row of group i dropped on the row of group j
HandleDrop(i, j) ==
  LET draggedName == currentConfig.groups[i].name
      targetName == currentConfig.groups[j].name
      r == handleDrop(currentConfig, draggedName, targetName)
  IN /\ i # j
     /\ currentConfig' = r
     /\ config' = r
     /\ page' = PageOp("handleDrop", NoFile,
                       SwapPriorities(currentConfig.groups, draggedName, targetName))
     /\ UNCHANGED <<storedBindings, windowBindings, windows, tabs, sort, last, calls, probe>>

AddTemplates(templateIds) ==
  LET r == addTemplates(currentConfig, templateIds)
  IN /\ Len(currentConfig.groups) + Len(templateIds) <= MaxGroups
     /\ currentConfig' = r
     /\ config' = IF Len(r.groups) > Len(currentConfig.groups) THEN r ELSE config
     /\ page' = PageOp("addTemplates", NoFile, <<>>)
     /\ UNCHANGED <<storedBindings, windowBindings, windows, tabs, sort, last, calls, probe>>

ExportConfig ==
  /\ page' = PageOp("exportConfig", exportConfig(currentConfig), <<>>)
  /\ UNCHANGED <<currentConfig, config, storedBindings, windowBindings, windows, tabs, sort,
                 last, calls, probe>>

\* the file chosen is one of the files at hand or the one just exported
ImportConfig(file) ==
  LET r == importConfig(currentConfig, file)
  IN /\ file \in ImportFiles \/ (page.op = "exportConfig" /\ file = page.file)
     /\ currentConfig' = r.config
     /\ config' = IF r.saved THEN r.config ELSE config
     /\ page' = PageOp("importConfig", file, <<>>)
     /\ UNCHANGED <<storedBindings, windowBindings, windows, tabs, sort, last, calls, probe>>

\* the options page opens on a fresh install: getConfig answers DEFAULT_CONFIG
OptionsInit ==
  /\ config = DEFAULT_CONFIG
  /\ currentConfig = DEFAULT_CONFIG
  /\ page = PageNone
  /\ probe = ProbeNone
  /\ tabs = [t \in TabIds |-> [windowId |-> 1, url |-> PageXY.url, title |-> PageXY.title]]
  /\ windows = [w \in WindowIds |-> "normal"]
  /\ storedBindings = EmptyBindings
  /\ windowBindings = EmptyBindings
  /\ sort = SortIdle
  /\ last = LastNone
  /\ calls = [c \in 1..MaxCalls |-> CallIdle]

OptionsNext ==
  \/ \E i \in 0..Len(currentConfig.groups), name \in FormNames, form \in Forms :
       SaveModal(i, name, form.patterns, form.mode)
  \/ \E i \in 1..Len(currentConfig.groups) : DeleteGroup(i)
  \/ \E i, j \in 1..Len(currentConfig.groups) : HandleDrop(i, j)
  \/ \E templateIds \in TemplateSelections : AddTemplates(templateIds)
  \/ ExportConfig
  \/ \E file \in ImportFiles \cup {page.file} : ImportConfig(file)

OptionsSpec == OptionsInit /\ [][OptionsNext]_vars

\* ------------------------------------------------------------------ options page and binding table together
\* the files imported here: one that is rejected, one without groups, one
\* with two groups
GroupFiles ==
  { File("notList", <<>>),
    File("list", <<>>),
    File("list", << FileGroup("b", TRUE, << <<"(">> >>, "regex", 1),
                    FileGroup("a", TRUE, << <<"x">> >>, "", NoPriority) >>) }

\* the group operations of the options page and the binding messages of
\* the popup, one after the other
ConfigBindingsNext ==
  \/ \E i \in 0..Len(currentConfig.groups), name \in FormNames :
       Idle /\ SaveModal(i, name, << <<"x">> >>, "simple")
  \/ \E i \in 1..Len(currentConfig.groups) : Idle /\ DeleteGroup(i)
  \/ \E file \in GroupFiles : Idle /\ ImportConfig(file)
  \/ \E w \in WindowIds, g \in GroupNames(config) : BindWindow(w, g)
  \/ \E w \in WindowIds : UnbindWindow(w)
  \/ RebindWindows
  \/ Respond

ConfigBindingsSpec == OptionsInit /\ [][ConfigBindingsNext]_vars

\* ------------------------------------------------------------------ the pattern matcher on its own
\* the longest text and the most patterns the matcher is called with
MaxLen == 2
MaxPatterns == 2

\* a letter, and the character that makes a regular expression invalid
Alphabet == {"x", "("}

TextsUpTo(n) == UNION {[1..k -> Alphabet] : k \in 0..n}

PatternLists == UNION {[1..k -> TextsUpTo(MaxLen)] : k \in 0..MaxPatterns}

\* a group named "a" with the probe's patterns and mode
ProbeGroup(patterns, mode) ==
  [name |-> "a", patterns |-> patterns, priority |-> 0, mode |-> mode]

\* the arguments of a call that has not been made
MatchInit ==
  /\ \E url \in TextsUpTo(MaxLen), title \in TextsUpTo(1), patterns \in PatternLists,
        mode \in {"simple", "regex"} :
       probe = [ProbeNone EXCEPT !.url = url, !.title = title, !.patterns = patterns,
                                 !.mode = mode]
  /\ config = DEFAULT_CONFIG
  /\ currentConfig = DEFAULT_CONFIG
  /\ page = PageNone
  /\ tabs = [t \in TabIds |-> [windowId |-> 1, url |-> PageXY.url, title |-> PageXY.title]]
  /\ windows = [w \in WindowIds |-> "normal"]
  /\ storedBindings = EmptyBindings
  /\ windowBindings = EmptyBindings
  /\ sort = SortIdle
  /\ last = LastNone
  /\ calls = [c \in 1..MaxCalls |-> CallIdle]

\* matchesPattern on the url and on the title for every pattern, then
\* tabMatchesGroup, getMatchInfo and findMatchingGroup for the group
Match ==
  LET group == ProbeGroup(probe.patterns, probe.mode)
      isSimple == probe.mode = "simple"
  IN /\ ~probe.applied
     /\ probe' = [probe EXCEPT
          !.applied = TRUE,
          !.urlMatches = [i \in 1..Len(probe.patterns) |->
                            matchesPattern(probe.url, probe.patterns[i], isSimple)],
          !.titleMatches = [i \in 1..Len(probe.patterns) |->
                              matchesPattern(probe.title, probe.patterns[i], isSimple)],
          !.tabMatches = tabMatchesGroup(probe.url, probe.title, group),
          !.matchType = getMatchInfo(probe.url, probe.title, group),
          !.matchingGroup = findMatchingGroup(Cfg(TRUE, <<group>>), probe.url, probe.title).name]
     /\ UNCHANGED <<config, storedBindings, windowBindings, windows, tabs, sort, last, calls,
                    currentConfig, page>>

MatchNext == Match

MatchSpec == MatchInit /\ [][MatchNext]_vars

\* ------------------------------------------------------------------ events during a sortAllTabs pass
\* sortAllTabs is suspended at one of its awaits
SortSuspended == sort.pc \in {"collect", "move"}

\* a tab is closed while the pass is suspended
TabClosed(t) ==
  /\ SortSuspended
  /\ t \in DOMAIN tabs
  /\ tabs' = [u \in (DOMAIN tabs) \ {t} |-> tabs[u]]
  /\ UNCHANGED <<pageVars, calls, config, storedBindings, windowBindings, windows, sort, last>>

\* the pages a tab navigates to during a pass
NavPages == {[url |-> <<"x", "y">>, title |-> <<"T">>], [url |-> <<"y">>, title |-> <<"T">>]}

\* tabs.onUpdated while the pass is suspended: the tab shows another page
\* and handleTabNavigation runs to its end
TabNavigated(t, pg, outcome) ==
  /\ SortSuspended
  /\ t \in DOMAIN tabs
  /\ tabs[t].url # pg.url \/ tabs[t].title # pg.title
  /\ LET navigated == [tabs EXCEPT ![t].url = pg.url, ![t].title = pg.title]
         r == handleTabNavigation(config, storedBindings, DOMAIN windows, navigated, t, outcome)
     IN /\ tabs' = r.tabs
        /\ IF r.bindings # storedBindings THEN Save(r.bindings)
           ELSE UNCHANGED <<storedBindings, windowBindings>>
  /\ UNCHANGED <<pageVars, calls, config, windows, sort, last>>

\* two groups of different priority, each bound to a window of its own, a
\* third window unbound, and the open tabs in any of the windows
InterleavedInit ==
  /\ config = Cfg(TRUE, <<GroupA(1), GroupB(2)>>)
  /\ \E place \in [TabIds -> WindowIds] :
       tabs = [t \in TabIds |->
                 LET pg == IF t % 2 = 1 THEN [url |-> <<"x", "y">>, title |-> <<"T">>]
                           ELSE [url |-> <<"y">>, title |-> <<"T">>]
                 IN [windowId |-> place[t], url |-> pg.url, title |-> pg.title]]
  /\ windows = [w \in WindowIds |-> "normal"]
  /\ storedBindings = bindWindow(bindWindow(EmptyBindings, 1, "a"), 2, "b")
  /\ windowBindings = storedBindings
  /\ sort = SortIdle
  /\ last = LastNone
  /\ calls = [c \in 1..MaxCalls |-> CallIdle]
  /\ currentConfig = config
  /\ page = PageNone
  /\ probe = ProbeNone

InterleavedNext ==
  \/ SortStart
  \/ SortCollect
  \/ \E ok \in BOOLEAN : SortMove(ok)
  \/ \E t \in TabIds : TabClosed(t)
  \/ \E t \in TabIds, pg \in NavPages : TabNavigated(t, pg, "ok")

\* one pass and the events that arrive while it runs
InterleavedSpec == InterleavedInit /\ [][InterleavedNext]_vars

\* ------------------------------------------------------------------ router and sorter side by side
\* a page that only group "b" matches
PageYT == [url |-> <<"y">>, title |-> <<"T">>]

\* configurations and pages for the comparison of handleTabNavigation
\* with sortAllTabs: a page two groups match by URL and a page the groups
\* match by URL and by title; two groups of one priority; a popup window
PlacementScenarios == <<
  [config |-> Cfg(TRUE, <<GroupA(1), GroupB(2)>>),
   pages |-> <<PageXY, PageXtY>>, popups |-> {}],
  [config |-> Cfg(TRUE, <<GroupA(1), GroupB(1)>>),
   pages |-> <<PageXY, PageYT>>, popups |-> {}],
  [config |-> Cfg(TRUE, <<GroupB(2), GroupA(1)>>),
   pages |-> <<PageYT, PageXY>>, popups |-> {3}] >>

PlacementInit ==
  /\ \E sc \in 1..Len(PlacementScenarios) :
       /\ config = PlacementScenarios[sc].config
       /\ \E place \in [TabIds -> WindowIds] :
            tabs = [t \in TabIds |->
                      LET pg == PlacementScenarios[sc].pages[
                                  ((t - 1) % Len(PlacementScenarios[sc].pages)) + 1]
                      IN [windowId |-> place[t], url |-> pg.url, title |-> pg.title]]
       /\ windows = [w \in WindowIds |->
                       IF w \in PlacementScenarios[sc].popups THEN "popup" ELSE "normal"]
  /\ storedBindings = EmptyBindings
  /\ windowBindings = EmptyBindings
  /\ sort = SortIdle
  /\ last = LastNone
  /\ calls = [c \in 1..MaxCalls |-> CallIdle]
  /\ currentConfig = config
  /\ page = PageNone
  /\ probe = ProbeNone

PlacementSpec == PlacementInit /\ [][Next]_vars

\* ------------------------------------------------------------------ vocabulary of the properties
InSort == last.op = "sortAllTabs"
SortDone == InSort /\ sort.pc = "done"

Groups == config.groups
GroupIdx == 1..Len(config.groups)

\* the state the running operation started from
PreTab(t) == last.preTabs[t]
PreGroupOf(w) == Lookup(last.preBindings, w)
MatchesTab(g, t) == tabMatchesGroup(PreTab(t).url, PreTab(t).title, g)

\* some live window was bound to the group when the operation started
LiveBound(name) ==
  \E w \in DOMAIN last.preBindings : last.preBindings[w] = name /\ w \in last.preWindows
BoundWindow(name) ==
  CHOOSE w \in DOMAIN last.preBindings : last.preBindings[w] = name /\ w \in last.preWindows

Configured(name) == \E i \in GroupIdx : Groups[i].name = name
PriorityOf(name) == Groups[CHOOSE i \in GroupIdx : Groups[i].name = name].priority

MovedTabs == {sort.moves[i].tab : i \in DOMAIN sort.moves}
DistinctPriorities ==
  \A i, j \in GroupIdx : i # j => Groups[i].priority # Groups[j].priority

\* ------------------------------------------------------------------ C1
\* C1: after bindWindow(w, g), whatever the table was, w maps to g and no
\* window other than w maps to g.
C1_BindWindowSoleOwner ==
  last.op = "bindWindow" =>
    /\ Lookup(storedBindings, last.windowId) = last.groupName
    /\ \A w \in DOMAIN storedBindings :
         storedBindings[w] = last.groupName => w = last.windowId

\* bindWindow has just evicted another window that held the group
C1_Witness ==
  /\ last.op = "bindWindow"
  /\ \E w \in DOMAIN last.preBindings :
       w # last.windowId /\ last.preBindings[w] = last.groupName
  /\ last.windowId \in DOMAIN last.preBindings
  /\ last.preBindings[last.windowId] # last.groupName

\* ------------------------------------------------------------------ C2
\* C2: starting from an empty table, after any sequence of completed
\* operations every group name is the value of at most one window id in
\* the persisted binding table.
C2_OneWindowPerGroup ==
  \A w1, w2 \in DOMAIN storedBindings :
    storedBindings[w1] = storedBindings[w2] => w1 = w2

\* a table with two bindings in which 'bindWindowToGroup' has just taken a
\* group away from another window
C2_Witness ==
  /\ last.op = "bindWindowToGroup"
  /\ last.windowId # NoWindow
  /\ Cardinality(DOMAIN storedBindings) >= 2
  /\ \E w \in DOMAIN last.preBindings :
       w # last.windowId /\ last.preBindings[w] = last.groupName

\* ------------------------------------------------------------------ C3
OnlyStaleBinding(g) ==
  /\ \E w \in DOMAIN last.preBindings : last.preBindings[w] = g
  /\ \A w \in DOMAIN last.preBindings :
       last.preBindings[w] = g => w \notin last.preWindows
  /\ Cardinality({w \in DOMAIN last.preBindings : last.preBindings[w] = g}) = 1

\* C3: if the only binding for g points to a window that does not exist,
\* findWindowForGroup(g) returns null and the persisted table no longer
\* contains the stale entry.
C3_StaleBindingRemoved ==
  (last.op = "findWindowForGroup" /\ OnlyStaleBinding(last.groupName)) =>
    /\ last.ret = NoWindow
    /\ \A w \in DOMAIN last.preBindings :
         last.preBindings[w] = last.groupName => w \notin DOMAIN storedBindings

C3_Witness ==
  /\ last.op = "findWindowForGroup"
  /\ OnlyStaleBinding(last.groupName)
  /\ Cardinality(DOMAIN last.preBindings) >= 2

\* ------------------------------------------------------------------ C4
\* g1 has the smaller priority number, the tab matches both groups and sat
\* in the window bound to g1 when the pass started
OwnedPair(i, j, t) ==
  /\ Groups[i].priority < Groups[j].priority
  /\ MatchesTab(Groups[i], t)
  /\ MatchesTab(Groups[j], t)
  /\ PreGroupOf(PreTab(t).windowId) = Groups[i].name

\* The claim as stated: such a tab is never moved during the pass,
\* whatever other groups the configuration contains.
C4_NeverMoved ==
  InSort =>
    \A i, j \in GroupIdx : \A t \in DOMAIN last.preTabs :
      OwnedPair(i, j, t) => t \notin MovedTabs

\* some matching group other than g1, with a priority number at most g1's,
\* had a live bound window when the pass started
Rival(i, t) ==
  \E k \in GroupIdx :
    /\ k # i
    /\ Groups[k].priority <= Groups[i].priority
    /\ MatchesTab(Groups[k], t)
    /\ LiveBound(Groups[k].name)

\* C4 (amended): a tab that matches g1 and g2, priority(g1) < priority(g2),
\* and sits in the window bound to g1 is not moved during a pass unless
\* another matching group with a priority number at most g1's has a live
\* bound window; and every move of it is made on behalf of a matching group
\* with a priority number at most g1's, never on behalf of g2.
C4_MovedOnlyByHigherPriority ==
  InSort =>
    \A i, j \in GroupIdx : \A t \in DOMAIN last.preTabs :
      OwnedPair(i, j, t) =>
        /\ ~Rival(i, t) => t \notin MovedTabs
        /\ \A m \in DOMAIN sort.moves :
             sort.moves[m].tab = t =>
               \E k \in GroupIdx :
                 /\ Groups[k].name = sort.moves[m].group
                 /\ Groups[k].priority <= Groups[i].priority
                 /\ MatchesTab(Groups[k], t)
                 /\ LiveBound(Groups[k].name)

\* the pass is over, g2 had a live window of its own, and the tab it
\* matches was left in g1's window
C4_Witness ==
  /\ SortDone
  /\ \E i, j \in GroupIdx : \E t \in DOMAIN last.preTabs :
       /\ OwnedPair(i, j, t)
       /\ ~IsInternalUrl(PreTab(t).url)
       /\ LiveBound(Groups[j].name)
       /\ BoundWindow(Groups[j].name) # PreTab(t).windowId
       /\ ~Rival(i, t)
       /\ t \notin MovedTabs
       /\ tabs[t].windowId = PreTab(t).windowId

\* ------------------------------------------------------------------ C5
\* every open tab that the resolver assigns a group sits in the window bound to it
AllTabsPlaced ==
  \A t \in DOMAIN last.preTabs :
    LET g == findMatchingGroup(config, PreTab(t).url, PreTab(t).title)
    IN g # NullGroup /\ PreGroupOf(PreTab(t).windowId) = g.name

\* C5: if every open tab already sits in a window bound to the group that
\* findMatchingGroup resolves for it, sortAllTabs moves no tab and returns
\* moved = 0.
C5_PlacedTabsStay ==
  (SortDone /\ AllTabsPlaced) =>
    /\ sort.movedCount = 0
    /\ \A t \in DOMAIN last.preTabs : tabs[t].windowId = PreTab(t).windowId

\* ------------------------------------------------------------------ C6
\* the matching groups with a live bound window, and the one of them with
\* the smallest priority number
Claimants(t) == {i \in GroupIdx : MatchesTab(Groups[i], t) /\ LiveBound(Groups[i].name)}
Best(t) ==
  CHOOSE i \in Claimants(t) : \A j \in Claimants(t) : Groups[i].priority <= Groups[j].priority

Routed(t) ==
  /\ ~IsInternalUrl(PreTab(t).url)
  /\ windows[PreTab(t).windowId] = "normal"
  /\ Claimants(t) # {}
  /\ ~\E k \in GroupIdx :
        /\ Groups[k].name = PreGroupOf(PreTab(t).windowId)
        /\ Groups[k].priority <= Groups[Best(t)].priority

Destinations ==
  /\ \A t \in DOMAIN last.preTabs :
       IF Routed(t)
       THEN tabs[t].windowId = BoundWindow(Groups[Best(t)].name)
       ELSE tabs[t].windowId = PreTab(t).windowId
  /\ sort.movedCount =
       Cardinality({t \in DOMAIN last.preTabs : tabs[t].windowId # PreTab(t).windowId})

C7_NotTakenByLowerPriority ==
  InSort =>
    \A m \in DOMAIN sort.moves :
      LET h == PreGroupOf(sort.moves[m].from)
      IN Configured(h) => PriorityOf(sort.moves[m].group) <= PriorityOf(h)

\* the pass is over; a tab that does not match the group of its window and
\* matches a group of larger priority number, which has a live window
\* elsewhere, is still where it was
C7_Witness ==
  /\ SortDone
  /\ \E t \in DOMAIN last.preTabs : \E i, j \in GroupIdx :
       /\ PreGroupOf(PreTab(t).windowId) = Groups[i].name
       /\ ~MatchesTab(Groups[i], t)
       /\ MatchesTab(Groups[j], t)
       /\ ~IsInternalUrl(PreTab(t).url)
       /\ windows[PreTab(t).windowId] = "normal"
       /\ Groups[i].priority < Groups[j].priority
       /\ LiveBound(Groups[j].name)
       /\ BoundWindow(Groups[j].name) # PreTab(t).windowId
       /\ tabs[t].windowId = PreTab(t).windowId

\* ------------------------------------------------------------------ C8
\* C8: when sortAllTabs finds a tab matching group g and no live window is
\* bound to g, it creates a new window containing that tab, binds the new
\* window to g and counts the tab in moved.
C8_CreatesWindowForGroup ==
  SortDone =>
    \A e \in sort.noTarget :
      /\ tabs[e[1]].windowId \notin last.preWindows
      /\ Lookup(storedBindings, tabs[e[1]].windowId) = e[2]
      /\ sort.movedCount >= 1

\* ------------------------------------------------------------------ C9
AllGroupsLiveBound == \A i \in GroupIdx : LiveBound(Groups[i].name)

\* C9: when every configured group has a live bound window, sortAllTabs
\* creates no window and leaves the binding table exactly as it was.
C9_BindingsUntouched ==
  (InSort /\ AllGroupsLiveBound) =>
    /\ DOMAIN windows = last.preWindows
    /\ storedBindings = last.preBindings

\* a finished pass of an enabled configuration, all of whose groups had a
\* live window, that moved a tab
C9_Witness ==
  /\ SortDone
  /\ config.enabled
  /\ Len(Groups) >= 2
  /\ AllGroupsLiveBound
  /\ sort.movedCount >= 1

\* ------------------------------------------------------------------ C10
TitleMatchers(url, title) == {i \in GroupIdx : SomePattern(Groups[i], title)}
UrlMatchers(url, title) ==
  {i \in GroupIdx : SomePattern(Groups[i], url)} \ TitleMatchers(url, title)

\* what the claim says of the group r returned for (url, title)
TitlePriorityResolution(url, title, r) ==
  LET T == TitleMatchers(url, title)
      U == UrlMatchers(url, title)
      winners == IF T # {} THEN T ELSE U
  IN /\ (r = NullGroup) <=> (T \cup U = {})
     /\ (T \cup U # {}) =>
          /\ \E i \in winners : Groups[i] = r
          /\ \A i \in winners : localeCompare(r.name, Groups[i].name) <= 0

InNavigation == last.op = "handleTabNavigation"

\* the navigation got past the enabled and internal-URL guards
Routable == InNavigation /\ config.enabled /\ ~IsInternalUrl(PreTab(last.tabId).url)

\* the configured groups whose patterns match the navigating tab
Matching == {i \in GroupIdx : MatchesTab(Groups[i], last.tabId)}

\* ------------------------------------------------------------------ C11
\* C11: on tab create/navigate the group chosen for the tab is the
\* highest-priority matching group: a group is chosen iff some group
\* matches, and the chosen group matches the tab and has the smallest
\* priority number among the matching groups.
C11_HighestPriorityChosen ==
  Routable =>
    /\ (last.matchingGroup = NullGroup) = (Matching = {})
    /\ \A j \in Matching :
         /\ \E i \in Matching : Groups[i] = last.matchingGroup
         /\ last.matchingGroup.priority <= Groups[j].priority

\* ------------------------------------------------------------------ C12
\* the group resolved for the navigating tab had a live bound window when
\* the handler started, and no move failed
ResolvedToLiveWindow ==
  /\ Routable
  /\ last.matchingGroup # NullGroup
  /\ LiveBound(last.matchingGroup.name)
  /\ last.move # "failed"

\* C12: handleTabNavigation for a tab whose resolved group g has a live
\* bound window W (config enabled, non-internal URL, move succeeds) leaves
\* the tab in W; if the tab's window is already bound to g, no tab is moved
\* and nothing changes.
C12_RoutedToBoundWindow ==
  ResolvedToLiveWindow =>
    /\ tabs[last.tabId].windowId = BoundWindow(last.matchingGroup.name)
    /\ \A u \in DOMAIN last.preTabs : u # last.tabId => tabs[u] = PreTab(u)
    /\ PreGroupOf(PreTab(last.tabId).windowId) = last.matchingGroup.name =>
         /\ last.move = "none"
         /\ tabs = last.preTabs
         /\ storedBindings = last.preBindings
         /\ DOMAIN windows = last.preWindows

\* the tab left a window bound to another group for the window of its own
C12_Witness ==
  /\ ResolvedToLiveWindow
  /\ last.move = "moved"
  /\ PreGroupOf(PreTab(last.tabId).windowId) \notin {NoGroup, last.matchingGroup.name}
  /\ tabs[last.tabId].windowId # PreTab(last.tabId).windowId

\* ------------------------------------------------------------------ C13
\* C13: on tab create/navigate, if the tab matches a group for which no
\* live bound window exists, a new window is created containing the tab and
\* is bound to that group.
C13_CreatesWindowOnNavigation ==
  (Routable /\ last.matchingGroup # NullGroup /\ ~LiveBound(last.matchingGroup.name)) =>
    /\ tabs[last.tabId].windowId \notin last.preWindows
    /\ tabs[last.tabId].windowId \in DOMAIN windows
    /\ Lookup(storedBindings, tabs[last.tabId].windowId) = last.matchingGroup.name

\* ------------------------------------------------------------------ C14
\* the navigating tab matches no group and a catch-all window is configured
Unmatched == Routable /\ Matching = {} /\ config.catchAllWindowId # NoWindow

\* where an unmatched tab is left, and what stays as it was
CatchAllOutcome ==
  /\ last.matchingGroup = NullGroup
  /\ IF config.catchAllWindowId \in last.preWindows
     THEN /\ tabs[last.tabId].windowId = config.catchAllWindowId
          /\ PreTab(last.tabId).windowId = config.catchAllWindowId => last.move = "none"
     ELSE /\ last.move = "none"
          /\ tabs = last.preTabs
  /\ \A u \in DOMAIN last.preTabs : u # last.tabId => tabs[u] = PreTab(u)
  /\ storedBindings = last.preBindings
  /\ config = last.preConfig

\* The claim as stated: an unmatched tab ends in the existing catch-all
\* window; with the catch-all window gone nothing is moved and the table
\* and the config are unchanged.
C14_CatchAll == Unmatched => CatchAllOutcome

\* C14 (amended): handleTabNavigation for a tab that matches no group
\* (config enabled, non-internal URL): if a catch-all window is configured
\* and exists, the tab ends in the catch-all window provided the move
\* succeeds (no move is issued if it is already there; a failed move leaves
\* it where it was, a failed focus leaves it moved); if the configured catch-all window no longer exists, no
\* tab is moved and the binding table and config are unchanged.
C14_CatchAllWhenMoveSucceeds ==
  Unmatched =>
    IF last.fault = "moveFails"
    THEN tabs = last.preTabs /\ storedBindings = last.preBindings /\ config = last.preConfig
    ELSE CatchAllOutcome

\* an unmatched tab has just been moved into the catch-all window while the
\* configuration has groups and the table a binding
C14_Witness ==
  /\ Unmatched
  /\ last.move = "moved"
  /\ Len(Groups) >= 1
  /\ storedBindings # EmptyBindings
  /\ tabs[last.tabId].windowId = config.catchAllWindowId
  /\ PreTab(last.tabId).windowId # config.catchAllWindowId

\* ------------------------------------------------------------------ C15
\* a tab event or a batch sort is the operation in progress
InRouting == InNavigation \/ InSort

\* C15: while config.enabled is false no tab event and no sortAllTabs call
\* moves a tab, creates a window or changes the binding table;
\* findMatchingGroup returns null and sortAllTabs returns moved = 0 with
\* errors = [], as it does when the group list is empty.
C15_DisabledDoesNothing ==
  /\ (~config.enabled /\ InRouting) =>
       /\ tabs = last.preTabs
       /\ DOMAIN windows = last.preWindows
       /\ storedBindings = last.preBindings
       /\ last.move = "none"
       /\ last.matchingGroup = NullGroup
  /\ ~config.enabled =>
       \A t \in DOMAIN tabs : findMatchingGroup(config, tabs[t].url, tabs[t].title) = NullGroup
  /\ (InSort /\ (~config.enabled \/ Len(Groups) = 0)) =>
       /\ sort.pc = "done"
       /\ sort.movedCount = 0
       /\ sort.errors = <<>>
       /\ tabs = last.preTabs

\* sortAllTabs has returned under a disabled configuration although a tab
\* matching a group sat outside the live window bound to that group
C15_Witness ==
  /\ ~config.enabled
  /\ SortDone
  /\ \E t \in DOMAIN tabs : \E i \in GroupIdx :
       /\ MatchesTab(Groups[i], t)
       /\ LiveBound(Groups[i].name)
       /\ BoundWindow(Groups[i].name) # tabs[t].windowId
       /\ Lookup(storedBindings, tabs[t].windowId) = NoGroup

\* ------------------------------------------------------------------ C16
\* the URL is empty or starts with chrome:// or chrome-extension://
EmptyOrBrowserUrl(url) ==
  \/ Len(url) = 0
  \/ (Len(url) >= 9 /\ SubSeq(url, 1, 9) = ChromeScheme)
  \/ (Len(url) >= 19 /\ SubSeq(url, 1, 19) = ChromeExtensionScheme)

\* C16: a tab whose URL is empty or starts with chrome:// or
\* chrome-extension:// is never moved by sortAllTabs or by
\* handleTabNavigation, even when its URL or title matches a group pattern
\* or a catch-all window is configured.
C16_InternalTabsStay ==
  InRouting =>
    \A t \in DOMAIN last.preTabs :
      EmptyOrBrowserUrl(PreTab(t).url) =>
        /\ tabs[t].windowId = PreTab(t).windowId
        /\ t \notin MovedTabs
        /\ last.tabId = t => last.move = "none"

\* a finished pass left a chrome:// tab where it was although a group with
\* a live window elsewhere matches its URL and its title
C16_Witness ==
  /\ SortDone
  /\ config.enabled
  /\ \E t \in DOMAIN last.preTabs : \E i \in GroupIdx :
       /\ EmptyOrBrowserUrl(PreTab(t).url)
       /\ SomePattern(Groups[i], PreTab(t).url)
       /\ SomePattern(Groups[i], PreTab(t).title)
       /\ LiveBound(Groups[i].name)
       /\ BoundWindow(Groups[i].name) # PreTab(t).windowId
       /\ windows[PreTab(t).windowId] = "normal"
       /\ PreGroupOf(PreTab(t).windowId) = NoGroup
       /\ sort.movedCount >= 1

\* ------------------------------------------------------------------ C17
\* a step of the move loop in which the move call failed
MoveFails == sort.pc = "move" /\ sort'.errors # sort.errors

\* what such a step does: one more error, nothing counted, nothing moved,
\* and the loops go on with the next candidate, else with the next group
PassGoesOn ==
  /\ Len(sort'.errors) = Len(sort.errors) + 1
  /\ SubSeq(sort'.errors, 1, Len(sort.errors)) = sort.errors
  /\ sort'.movedCount = sort.movedCount
  /\ sort'.moves = sort.moves
  /\ tabs' = tabs
  /\ sort'.groups = sort.groups
  /\ IF sort.k < Len(sort.tabsToMove)
     THEN /\ sort'.pc = "move"
          /\ sort'.idx = sort.idx
          /\ sort'.tabsToMove = sort.tabsToMove
          /\ sort'.k = sort.k + 1
     ELSE /\ sort'.idx = sort.idx + 1
          /\ sort'.pc = IF sort.idx < Len(sort.groups) THEN "collect" ELSE "done"

\* C17: in sortAllTabs a failing tab move does not abort the pass: it adds
\* exactly one message to errors, moved is not incremented for that tab, the
\* remaining candidates of the group and the remaining groups are still
\* attempted; and moved equals the number of move calls that succeeded.
C17_FailureDoesNotAbort ==
  /\ [](InSort => sort.movedCount = Len(sort.moves))
  /\ [][MoveFails => PassGoesOn]_vars

\* two candidates of the only group with a window, collected from one
\* window: the move of the first failed, the second one was moved
C17_Witness ==
  /\ SortDone
  /\ sort.errors = <<1>>
  /\ Len(sort.moves) = 1
  /\ sort.moves[1].tab = 2
  /\ PreTab(1).windowId = PreTab(2).windowId
  /\ Cardinality({i \in GroupIdx : LiveBound(Groups[i].name)}) = 1
  /\ Len(Groups) >= 2

\* ------------------------------------------------------------------ C18
InRebind == last.op = "rebindWindows"

\* window w held, when the pass started, a tab with a non-empty URL whose
\* URL or title matches the group in the group's mode
Evidence(w, g) ==
  \E t \in DOMAIN last.preTabs :
    /\ PreTab(t).windowId = w
    /\ Len(PreTab(t).url) > 0
    /\ \E q \in 1..Len(g.patterns) :
         \/ matchesPattern(PreTab(t).url, g.patterns[q], g.mode = "simple")
         \/ matchesPattern(PreTab(t).title, g.patterns[q], g.mode = "simple")

\* the table the claim describes: the groups from i on, in configured
\* order, each taking the first window with evidence that is not yet taken
RECURSIVE FirstEvidence(_, _)
FirstEvidence(i, acc) ==
  IF i > Len(Groups) THEN acc
  ELSE LET free == {w \in last.preWindows : w \notin DOMAIN acc /\ Evidence(w, Groups[i])}
       IN IF free = {} THEN FirstEvidence(i + 1, acc)
          ELSE FirstEvidence(i + 1,
                 [w \in DOMAIN acc \cup {CHOOSE m \in free : \A x \in free : m <= x} |->
                    IF w \in DOMAIN acc THEN acc[w] ELSE Groups[i].name])

\* C18: rebindWindowsOnStartup (config enabled, at least one group) binds
\* each group, in configured order, to the first window in enumeration order
\* that is not already bound in this pass and holds a tab with a non-empty
\* URL whose URL or title matches the group; a group with no such window
\* stays unbound; each window and each group occurs at most once.
C18_RebindTable ==
  (InRebind /\ config.enabled /\ Len(Groups) >= 1) =>
    /\ storedBindings = FirstEvidence(1, EmptyBindings)
    /\ windowBindings = storedBindings
    /\ \A w1, w2 \in DOMAIN storedBindings :
         storedBindings[w1] = storedBindings[w2] => w1 = w2

\* a group took its second choice because an earlier group had taken the
\* first window with evidence for it, a group stayed unbound, and the
\* previous table was not empty
C18_Witness ==
  /\ InRebind /\ config.enabled
  /\ last.preBindings # EmptyBindings
  /\ \E i \in GroupIdx : \E w, v \in DOMAIN storedBindings :
       /\ storedBindings[w] = Groups[i].name
       /\ v < w
       /\ Evidence(v, Groups[i])
       /\ storedBindings[v] # Groups[i].name
  /\ \E i \in GroupIdx : \A w \in DOMAIN storedBindings : storedBindings[w] # Groups[i].name

\* ------------------------------------------------------------------ C19
\* C19: after rebindWindowsOnStartup returns, for every configuration
\* (a disabled one or an empty group list included), the binding table
\* consists only of bindings derived in this pass from live windows: every
\* entry names a live window that holds evidence for the entry's group.
C19_OnlyDerivedBindings ==
  InRebind =>
    \A w \in DOMAIN storedBindings :
      /\ w \in DOMAIN windows
      /\ \E i \in GroupIdx : Groups[i].name = storedBindings[w] /\ Evidence(w, Groups[i])

\* ------------------------------------------------------------------ C20
\* every bindWindow call that was made has completed its write
AllCallsCompleted == \A c \in 1..MaxCalls : calls[c].pc # "write"

\* C20: for any interleaving of concurrent bindWindow calls, suspended at
\* their storage read and at their storage write, once every call has
\* completed the persisted table maps at most one window to each group.
C20_ConvergesToOneOwner ==
  AllCallsCompleted =>
    \A w1, w2 \in DOMAIN storedBindings :
      storedBindings[w1] = storedBindings[w2] => w1 = w2

\* three calls have completed; two of them asked for the same group with
\* different windows, and the binding of the third, which shares neither
\* window nor group with another call, was overwritten by a later write
C20_Witness ==
  /\ \A c \in 1..MaxCalls : calls[c].pc = "done"
  /\ \E c, d, e \in 1..MaxCalls :
       /\ calls[c].groupName = calls[d].groupName
       /\ calls[c].windowId # calls[d].windowId
       /\ calls[e].groupName # calls[c].groupName
       /\ calls[e].windowId \notin {calls[c].windowId, calls[d].windowId}
       /\ Lookup(storedBindings, calls[e].windowId) = NoGroup
       /\ Lookup(storedBindings, calls[d].windowId) = calls[d].groupName

\* ------------------------------------------------------------------ C21
\* the windows the persisted table maps to the group
Owners(g) == {w \in DOMAIN storedBindings : storedBindings[w] = g}

\* the intermediate point of a race for one group: call c has written its
\* binding, call d, which read before that write and asks for the same
\* group with another window, has its write pending
Racing(c, d) ==
  /\ calls[c].pc = "done"
  /\ calls[d].pc = "write"
  /\ calls[c].groupName = calls[d].groupName
  /\ calls[c].windowId # calls[d].windowId
  /\ Lookup(storedBindings, calls[c].windowId) = calls[c].groupName
  /\ calls[c].windowId \notin DOMAIN calls[d].bindings

\* The claim as stated, at the intermediate point it names: before the last
\* writer's write the persisted table maps two windows to the group.
C21_TransientTwoOwners ==
  \A c, d \in 1..MaxCalls :
    Racing(c, d) => Cardinality(Owners(calls[c].groupName)) >= 2

\* C21 (amended): in no interleaving of concurrent bind operations, at no
\* intermediate point, does the persisted table map two different windows
\* to the same group: before the last writer's write the group belongs to
\* the earlier writer's window alone, after it to the last writer's.
C21_NeverTwoOwners ==
  /\ \A g \in GroupNames(config) : Cardinality(Owners(g)) <= 1
  /\ \A c, d \in 1..MaxCalls :
       Racing(c, d) => Owners(calls[c].groupName) = {calls[c].windowId}

\* the race is on while the table holds a binding for another group
C21_Witness ==
  \E c, d \in 1..MaxCalls :
    /\ Racing(c, d)
    /\ Cardinality(DOMAIN storedBindings) >= 2

\* ------------------------------------------------------------------ C22
InImport == page.op = "importConfig"

\* the file has no groups list, or a group without a name or without a
\* patterns list
Malformed(file) ==
  \/ file.groupsKind \in {"missing", "notList"}
  \/ \E i \in 1..Len(file.groups) :
       file.groups[i].name = "" \/ ~file.groups[i].patternsIsArray

\* C22: importConfig of a file whose groups field is missing or not a list,
\* or that contains a group with no name or whose patterns is not a list,
\* is rejected: currentConfig and the stored config are exactly what they
\* were before the import.
C22_MalformedImportRejected ==
  (InImport /\ Malformed(page.file)) =>
    /\ currentConfig = page.preCurrent
    /\ config = page.preStored

\* a file whose first group is well formed and whose second group has no
\* patterns list was offered to a page that holds groups
C22_Witness ==
  /\ InImport
  /\ page.file.groupsKind = "list"
  /\ Len(page.file.groups) = 2
  /\ page.file.groups[1].name # "" /\ page.file.groups[1].patternsIsArray
  /\ ~page.file.groups[2].patternsIsArray
  /\ Len(page.preCurrent.groups) >= 1

\* ------------------------------------------------------------------ C23
\* the import read the file that exportConfig writes for the config the
\* page held
RoundTrip == InImport /\ page.file = exportConfig(page.preCurrent)

SameGroupList(gs, hs) ==
  /\ Len(gs) = Len(hs)
  /\ \A i \in 1..Len(gs) :
       /\ gs[i].name = hs[i].name
       /\ gs[i].patterns = hs[i].patterns
       /\ gs[i].mode = hs[i].mode
       /\ gs[i].priority = hs[i].priority

FinitePriorities(gs) == \A i \in 1..Len(gs) : gs[i].priority # Infinity

C24_NamesUnique ==
  \A i, j \in 1..Len(currentConfig.groups) :
    currentConfig.groups[i].name = currentConfig.groups[j].name => i = j

\* ------------------------------------------------------------------ C25
Renumbered == page.op \in {"deleteGroup", "handleDrop"}

\* C25: after any sequence of add, delete, drag-reorder, template-add and
\* import operations, group priorities are pairwise distinct; and
\* immediately after every delete or reorder the priorities are exactly
\* 0..n-1, assigned in ascending order of the priorities held just before
\* renumbering.
C25_PrioritiesDistinct ==
  LET gs == currentConfig.groups
      before == page.beforeRenumber
  IN /\ \A i, j \in 1..Len(gs) : gs[i].priority = gs[j].priority => i = j
     /\ Renumbered =>
          /\ {gs[i].priority : i \in 1..Len(gs)} = 0..(Len(gs) - 1)
          /\ \A i, j \in 1..Len(gs) :
               before[i].priority < before[j].priority => gs[i].priority < gs[j].priority

\* ------------------------------------------------------------------ C26
\* C26: whenever the extension moves a tab into another window (by
\* tab-navigation routing or by Sort All, the browser calls it makes
\* succeeding), the destination window gains focus.
C26_DestinationFocused ==
  /\ (InNavigation /\ last.fault = "ok"
        /\ tabs[last.tabId].windowId # PreTab(last.tabId).windowId) =>
       last.focused = tabs[last.tabId].windowId
  /\ InSort => \A k \in 1..Len(sort.moves) : sort.moves[k].to \in sort.focused

\* ------------------------------------------------------------------ C27
\* moveTabToWindow was called and one of its two browser calls threw
MoveFaulted == InNavigation /\ last.fault # "ok"

\* C27: moveTabToWindow never propagates a failure: when the underlying tab
\* move or window focus fails it returns false, and handleTabNavigation
\* completes normally without changing the binding table or config.
C27_FailureCaught ==
  MoveFaulted =>
    /\ last.move = "failed"
    /\ storedBindings = last.preBindings
    /\ windowBindings = storedBindings
    /\ config = last.preConfig

\* the focus failed after the tab had been moved to the bound window of its
\* group
C27_Witness ==
  /\ MoveFaulted
  /\ last.fault = "focusFails"
  /\ last.matchingGroup # NullGroup
  /\ tabs[last.tabId].windowId # PreTab(last.tabId).windowId
  /\ tabs[last.tabId].windowId = BoundWindow(last.matchingGroup.name)

\* ------------------------------------------------------------------ C29
\* the pass works through its groups in ascending priority
AscendingGroups ==
  \A i, j \in 1..Len(sort.groups) :
    i < j => sort.groups[i].priority <= sort.groups[j].priority

\* the moves made so far are in ascending priority of the groups they were
\* made for
AscendingMoves ==
  \A k, l \in 1..Len(sort.moves) :
    k < l => PriorityOf(sort.moves[k].group) <= PriorityOf(sort.moves[l].group)

\* an iteration of the move loop: with candidates left the pass stays with
\* its group and takes the next candidate, after the last one it goes on to
\* the next group
MoveLoopStep ==
  (InSort /\ sort.pc = "move") =>
    IF sort.k < Len(sort.tabsToMove)
    THEN /\ sort'.pc = "move"
         /\ sort'.idx = sort.idx
         /\ sort'.k = sort.k + 1
         /\ sort'.tabsToMove = sort.tabsToMove
    ELSE /\ sort'.pc \in {"collect", "done"}
         /\ sort'.idx = sort.idx + 1

\* the candidates of a group are collected only after the group before it
\* is finished, and the pass never goes back to an earlier group
CollectStep ==
  (InSort /\ sort.pc = "collect") =>
    /\ sort'.idx \in {sort.idx, sort.idx + 1}
    /\ sort'.pc = "move" => sort'.idx = sort.idx /\ sort'.k = 1

\* C29: within one sortAllTabs pass, every move attempt made on behalf of a
\* group with priority p happens before any move attempt made on behalf of
\* a group with priority greater than p, and all candidates of a group are
\* attempted before the next group's candidates are collected.
C29_GroupByGroupInPriorityOrder ==
  /\ [](InSort => AscendingGroups /\ AscendingMoves)
  /\ [][MoveLoopStep /\ CollectStep]_vars

\* a pass has moved tabs for two groups of different priority that are
\* configured in the opposite order
C29_Witness ==
  /\ InSort
  /\ \E k, l \in 1..Len(sort.moves) :
       /\ k < l
       /\ PriorityOf(sort.moves[k].group) < PriorityOf(sort.moves[l].group)
       /\ \E i, j \in GroupIdx :
            /\ i < j
            /\ Groups[i].name = sort.moves[l].group
            /\ Groups[j].name = sort.moves[k].group

\* ------------------------------------------------------------------ C30
\* move k of the pass took a tab out of the window bound to group i and
\* into the window of group j, a group of the same priority that comes
\* later in the configured list, the tab matching both groups
TakenByLaterTie(k, i, j) ==
  /\ i < j
  /\ Groups[i].priority = Groups[j].priority
  /\ sort.moves[k].group = Groups[j].name
  /\ PreGroupOf(sort.moves[k].from) = Groups[i].name
  /\ MatchesTab(Groups[i], sort.moves[k].tab)
  /\ MatchesTab(Groups[j], sort.moves[k].tab)

\* C30: priority ties are broken by insertion order: when two groups have
\* equal priority, sortAllTabs treats the group earlier in the configured
\* list as the higher-priority one, so a tab that matches both and sits in
\* the earlier group's bound window is not moved to the later group's
\* window.
C30_TieKeepsEarlierGroup ==
  InSort =>
    \A k \in 1..Len(sort.moves) : \A i, j \in GroupIdx : ~TakenByLaterTie(k, i, j)

\* ------------------------------------------------------------------ C28
\* new RegExp(pattern) throws: the pattern opens a group it does not close
Uncompilable(pattern) == \E i \in 1..Len(pattern) : pattern[i] = "("

\* the pattern is empty, or the mode is regex and the pattern does not compile
Unusable(pattern) == pattern = <<>> \/ (probe.mode = "regex" /\ Uncompilable(pattern))

\* C28: matchesPattern returns false whenever the text is empty or absent
\* or the pattern is empty, in both simple and regex mode, and in regex
\* mode a pattern that fails to compile yields false instead of an
\* exception; consequently a group whose patterns are all invalid or empty
\* never claims a tab.
C28_UnusableNeverMatches ==
  probe.applied =>
    /\ \A i \in 1..Len(probe.patterns) :
         /\ probe.urlMatches[i] \in BOOLEAN /\ probe.titleMatches[i] \in BOOLEAN
         /\ probe.url = <<>> => ~probe.urlMatches[i]
         /\ probe.title = <<>> => ~probe.titleMatches[i]
         /\ Unusable(probe.patterns[i]) => ~probe.urlMatches[i] /\ ~probe.titleMatches[i]
    /\ (\A i \in 1..Len(probe.patterns) : Unusable(probe.patterns[i])) =>
         /\ ~probe.tabMatches
         /\ probe.matchType = "none"
         /\ probe.matchingGroup = NoGroup

\* a regex group of an empty pattern and a pattern that does not compile
\* was asked about a url that holds the characters of that pattern
C28_Witness ==
  /\ probe.applied
  /\ probe.mode = "regex"
  /\ Len(probe.patterns) = 2
  /\ probe.patterns[1] = <<>>
  /\ Uncompilable(probe.patterns[2])
  /\ includes(probe.url, probe.patterns[2])
  /\ probe.title # <<>>
  /\ ~probe.tabMatches

\* ------------------------------------------------------------------ C32
\* the window-removed handler or an unbindWindow call has completed
InUnbind == last.op \in {"windowRemoved", "unbindWindow"}

\* C32: after the window-removed handler for window w completes (no
\* interleaving), the binding table has no entry for w and every entry for
\* any other window is unchanged; unbinding a window that has no entry
\* leaves the table unchanged.
C32_UnbindRemovesOnlyOwnEntry ==
  InUnbind =>
    /\ last.windowId \notin DOMAIN storedBindings
    /\ \A w \in WindowIds \ {last.windowId} :
         Lookup(storedBindings, w) = Lookup(last.preBindings, w)
    /\ last.windowId \notin DOMAIN last.preBindings => storedBindings = last.preBindings
    /\ windowBindings = storedBindings

\* a bound window was closed while another window was bound
C32_Witness ==
  /\ last.op = "windowRemoved"
  /\ last.windowId \in DOMAIN last.preBindings
  /\ storedBindings # EmptyBindings

\* ------------------------------------------------------------------ C33
InBindWindowToGroup == last.op = "bindWindowToGroup"

\* C33: after the 'bindWindowToGroup' message for (groupName, windowId) is
\* handled, the only window mapped to groupName is windowId; when windowId
\* is null no window is mapped to groupName; entries for other groups on
\* other windows are unchanged.
C33_BindWindowToGroupMessage ==
  InBindWindowToGroup =>
    /\ {w \in DOMAIN storedBindings : storedBindings[w] = last.groupName}
         = {last.windowId} \ {NoWindow}
    /\ \A w \in WindowIds \ {last.windowId} :
         Lookup(last.preBindings, w) # last.groupName =>
           Lookup(storedBindings, w) = Lookup(last.preBindings, w)

\* the group was taken from its window by the "not assigned" choice while
\* another group kept its window
C33_Witness ==
  /\ InBindWindowToGroup
  /\ last.windowId = NoWindow
  /\ \E w \in DOMAIN last.preBindings : last.preBindings[w] = last.groupName
  /\ storedBindings # EmptyBindings

\* ------------------------------------------------------------------ C39
\* handleTabNavigation called moveTabToWindow
MoveCalled == InNavigation /\ last.move # "none"

\* the window it was called with: the live window bound to the resolved
\* group, the catch-all window for a tab that matches no group
MoveTarget ==
  IF last.matchingGroup # NullGroup THEN BoundWindow(last.matchingGroup.name)
  ELSE config.catchAllWindowId

\* The claim as stated: moveTabToWindow(tab, W) returns true if and only if
\* the tab is in window W when it returns: a false result implies the tab
\* was left in its original window.
C39_TrueIffMoved ==
  MoveCalled =>
    /\ (last.move = "moved") <=> (tabs[last.tabId].windowId = MoveTarget)
    /\ last.move = "failed" => tabs[last.tabId].windowId = PreTab(last.tabId).windowId

\* C39 (amended): if moveTabToWindow(tab, W) returns true the tab is in
\* window W when it returns; it returns false when the move failed, and
\* the tab was then left in its original window, and when the move
\* succeeded and the focus failed, and the tab is then in window W.
C39_TrueOnlyIfMoved ==
  MoveCalled =>
    /\ last.move = "moved" => tabs[last.tabId].windowId = MoveTarget
    /\ last.move = "failed" =>
         IF last.fault = "moveFails"
         THEN tabs[last.tabId].windowId = PreTab(last.tabId).windowId
         ELSE tabs[last.tabId].windowId = MoveTarget

\* the move to the catch-all window failed and the tab stayed where it was
C39_Witness ==
  /\ MoveCalled
  /\ last.fault = "moveFails"
  /\ last.matchingGroup = NullGroup
  /\ tabs[last.tabId].windowId = PreTab(last.tabId).windowId

\* ------------------------------------------------------------------ C34
\* the moves of the running pass that moved tab t
MovesOf(t) == {i \in DOMAIN sort.moves : sort.moves[i].tab = t}

\* C34: with pairwise distinct group priorities and no interleaved events,
\* each tab is moved at most once within a single sortAllTabs pass, so the
\* returned moved never exceeds the number of open tabs.
C34_EachTabMovedAtMostOnce ==
  (InSort /\ DistinctPriorities) =>
    /\ \A t \in TabIds : Cardinality(MovesOf(t)) <= 1
    /\ sort.movedCount = Len(sort.moves)
    /\ sort.movedCount <= Cardinality(DOMAIN tabs)

\* a finished pass moved a tab for one group and a later group that the
\* tab matches too, with a live window of its own, left it there
C34_Witness ==
  /\ SortDone
  /\ DistinctPriorities
  /\ \E t \in MovedTabs, i, j \in GroupIdx :
       /\ Groups[i].priority < Groups[j].priority
       /\ MatchesTab(Groups[i], t) /\ MatchesTab(Groups[j], t)
       /\ LiveBound(Groups[i].name) /\ LiveBound(Groups[j].name)
       /\ \E m \in MovesOf(t) : sort.moves[m].group = Groups[i].name

\* ------------------------------------------------------------------ C35
\* a pass over bindings b and tabs tbs moves no tab: sorting is disabled,
\* or no group with a live window has a candidate outside that window
NothingToMove(b, tbs) ==
  \/ ~config.enabled
  \/ \A i \in GroupIdx, t \in DOMAIN tbs :
       IsCandidate(config, Groups[i], b, windows, tbs, t) =>
         findWindowForGroup(b, DOMAIN windows, Groups[i].name).window
           \in {NoWindow, tbs[t].windowId}

\* C35: sortAllTabs is idempotent: with pairwise distinct priorities and no
\* events in between, a pass that completed without errors leaves nothing
\* for a second pass to move, and a pass that starts with nothing to move
\* moves no tab and returns moved = 0.
C35_SecondPassMovesNothing ==
  DistinctPriorities =>
    /\ (SortDone /\ sort.errors = <<>>) => NothingToMove(storedBindings, tabs)
    /\ (InSort /\ NothingToMove(last.preBindings, last.preTabs)) =>
         /\ sort.movedCount = 0
         /\ sort.moves = <<>>
         /\ tabs = last.preTabs

\* a pass has run to its end over tabs that an earlier pass had placed: a
\* tab that matches two groups with live windows sits in the window of the
\* one with the lower priority number
C35_Witness ==
  /\ SortDone
  /\ DistinctPriorities
  /\ config.enabled
  /\ NothingToMove(last.preBindings, last.preTabs)
  /\ sort.movedCount = 0
  /\ \E t \in DOMAIN tabs, i, j \in GroupIdx :
       /\ Groups[i].priority < Groups[j].priority
       /\ MatchesTab(Groups[i], t) /\ MatchesTab(Groups[j], t)
       /\ LiveBound(Groups[i].name) /\ LiveBound(Groups[j].name)
       /\ tabs[t].windowId = BoundWindow(Groups[i].name)

\* ------------------------------------------------------------------ C36
\* handleTabNavigation fired now for tab t, its URL and title unchanged,
\* moves the tab
RouterMoves(t) ==
  handleTabNavigation(config, storedBindings, DOMAIN windows, tabs, t, "ok").tabs # tabs

\* a sortAllTabs pass started now moves tab t: some group collects it and
\* has a live window elsewhere
SorterMoves(t) ==
  /\ config.enabled
  /\ \E i \in GroupIdx :
       /\ IsCandidate(config, Groups[i], storedBindings, windows, tabs, t)
       /\ findWindowForGroup(storedBindings, DOMAIN windows, Groups[i].name).window
            \notin {NoWindow, tabs[t].windowId}

\* group g has a smaller priority number than every other group that
\* matches the page
StrictlyBest(g, url, title) ==
  /\ g # NullGroup
  /\ \A i \in GroupIdx :
       (Groups[i].name # g.name /\ tabMatchesGroup(url, title, Groups[i]))
         => g.priority < Groups[i].priority

\* The claim as stated: in any state reached by a completed sortAllTabs
\* pass with no errors, firing handleTabNavigation for any tab with its
\* unchanged URL and title moves no tab, and a tab just placed by
\* handleTabNavigation is not moved by an immediately following
\* sortAllTabs.
C36_RouterAndSorterAgree ==
  /\ (SortDone /\ sort.errors = <<>>) => \A t \in DOMAIN tabs : ~RouterMoves(t)
  /\ (InNavigation /\ last.move = "moved") => ~SorterMoves(last.tabId)

\* C36 (amended): in any state reached by a completed sortAllTabs pass
\* with no errors, firing handleTabNavigation with unchanged URL and title
\* does not move a tab that sits in a normal window, whose resolved group
\* has a smaller priority number than every other group matching the tab,
\* and whose window is not bound to a group with a smaller priority number
\* than the resolved group; and a tab just placed by handleTabNavigation
\* is not moved by an immediately following sortAllTabs when it matches no
\* group or its resolved group has a smaller priority number than every
\* other group matching it.
C36_AgreeOnStrictlyBestGroup ==
  /\ (SortDone /\ sort.errors = <<>>) =>
       \A t \in DOMAIN tabs :
         LET g == findMatchingGroup(config, tabs[t].url, tabs[t].title)
         IN (/\ windows[tabs[t].windowId] = "normal"
             /\ StrictlyBest(g, tabs[t].url, tabs[t].title)
             /\ ~\E k \in GroupIdx :
                    /\ Groups[k].name = Lookup(storedBindings, tabs[t].windowId)
                    /\ Groups[k].priority < g.priority)
            => ~RouterMoves(t)
  /\ (/\ InNavigation
      /\ last.move = "moved"
      /\ \/ last.matchingGroup = NullGroup
         \/ StrictlyBest(last.matchingGroup, tabs[last.tabId].url, tabs[last.tabId].title))
     => ~SorterMoves(last.tabId)

\* a pass has just moved a tab into the window of its resolved group, the
\* best of two groups that match it and have live windows, and the router
\* leaves it there
C36_Witness ==
  /\ SortDone
  /\ sort.errors = <<>>
  /\ \E t \in MovedTabs :
       LET g == findMatchingGroup(config, tabs[t].url, tabs[t].title)
       IN /\ StrictlyBest(g, tabs[t].url, tabs[t].title)
          /\ Cardinality({i \in GroupIdx : MatchesTab(Groups[i], t)}) >= 2
          /\ \A i \in GroupIdx : LiveBound(Groups[i].name)
          /\ Lookup(storedBindings, tabs[t].windowId) = g.name
          /\ ~RouterMoves(t)

\* ------------------------------------------------------------------ C38
\* two calls were made, on different windows and for different groups (an
\* unbindWindow has no group), and both have completed
TwoCallsCompleted ==
  /\ calls[1].pc = "done"
  /\ calls[2].pc = "done"
  /\ \A c \in 3..MaxCalls : calls[c].pc = "idle"
  /\ calls[1].windowId # calls[2].windowId
  /\ calls[1].groupName # calls[2].groupName

\* table b shows what call c asked for
Reflects(b, c) ==
  IF calls[c].groupName # NoGroup
  THEN Lookup(b, calls[c].windowId) = calls[c].groupName
  ELSE calls[c].windowId \notin DOMAIN b

BothBinds == calls[1].groupName # NoGroup /\ calls[2].groupName # NoGroup

\* The claim as stated: if bindWindow(w1, g1) and bindWindow(w2, g2) with
\* w1 # w2 and g1 # g2 (or a bindWindow and an unbindWindow on different
\* windows) run interleaved at their storage read and write, then after
\* both complete the persisted table reflects both operations.
C38_NoLostUpdate ==
  TwoCallsCompleted =>
    Reflects(storedBindings, 1) /\ Reflects(storedBindings, 2)

\* C38 (amended): after both calls complete the persisted table is the
\* table computed by the call whose write landed last, which reflects that
\* call's own operation; of two binds both w1 -> g1 and w2 -> g2 are
\* present only if one call read the table after the other's write had
\* landed, otherwise only the last writer's binding is present.
C38_LastWriterWins ==
  TwoCallsCompleted =>
    /\ \E c \in 1..2 :
         storedBindings = calls[c].bindings /\ Reflects(storedBindings, c)
    /\ BothBinds =>
         ((Reflects(storedBindings, 1) /\ Reflects(storedBindings, 2))
            <=> \E c \in 1..2 : Reflects(calls[c].bindings, 1) /\ Reflects(calls[c].bindings, 2))

\* two binds on different windows for different groups have completed and
\* the persisted table holds only one of the two bindings
C38_Witness ==
  /\ TwoCallsCompleted
  /\ BothBinds
  /\ Cardinality(DOMAIN storedBindings) = 1

\* ------------------------------------------------------------------ C31
\* an iteration of the move loop reaches a candidate that is closed
SkipStep ==
  /\ InSort
  /\ sort.pc = "move"
  /\ sort' # sort
  /\ sort.tabsToMove[sort.k] \notin DOMAIN tabs

\* what that iteration leaves: nothing counted, nothing recorded, no tab
\* touched, and the pass at its next candidate or, after the last one, at
\* its next group
Skipped ==
  /\ sort'.movedCount = sort.movedCount
  /\ sort'.moves = sort.moves
  /\ sort'.errors = sort.errors
  /\ tabs' = tabs
  /\ IF sort.k < Len(sort.tabsToMove)
     THEN /\ sort'.pc = "move"
          /\ sort'.idx = sort.idx
          /\ sort'.tabsToMove = sort.tabsToMove
          /\ sort'.k = sort.k + 1
     ELSE /\ sort'.idx = sort.idx + 1
          /\ sort'.pc = IF sort.idx < Len(sort.groups) THEN "collect" ELSE "done"

\* C31: if a candidate tab no longer exists when sortAllTabs reaches it in
\* the move loop, it is skipped: moved is not incremented, no error string
\* is recorded, and the remaining candidates and groups are still
\* processed, up to the last group.
C31_ClosedCandidateSkipped ==
  /\ [][SkipStep => Skipped]_vars
  /\ []((SortDone /\ sort.groups # <<>>) => sort.idx = Len(sort.groups) + 1)

\* a pass is over that skipped a closed candidate of the first group, then
\* moved a tab for the second group, and recorded no error
C31_Witness ==
  /\ SortDone
  /\ sort.errors = <<>>
  /\ \E e \in sort.skipped :
       /\ e[2] = sort.groups[1].name
       /\ e[1] \notin DOMAIN tabs
       /\ \E m \in DOMAIN sort.moves : sort.moves[m].group = sort.groups[2].name
  /\ sort.movedCount = Len(sort.moves)

\* ------------------------------------------------------------------ C37
\* an iteration of the move loop calls chrome.tabs.move
IssuesMove ==
  /\ InSort
  /\ sort.pc = "move"
  /\ sort'.moves # sort.moves \/ sort'.errors # sort.errors

\* tab t matches group g and does not sit in a window bound to a group
\* with a smaller priority number than g
Eligible(t, g) ==
  /\ tabMatchesGroup(tabs[t].url, tabs[t].title, g)
  /\ ~\E k \in GroupIdx :
        /\ Groups[k].name = Lookup(storedBindings, tabs[t].windowId)
        /\ Groups[k].priority < g.priority

\* the candidates of a group have just been collected
Collected == InSort /\ sort.pc = "collect" /\ sort'.pc = "move"

Dangling == {w \in DOMAIN storedBindings : storedBindings[w] \notin GroupNames(config)}

====
